---- MODULE Spec2Model ----
(***************************************************************************)
(* A model of the oddity content store, its query language and the Wire    *)
(* materialization engine (package contentstuff).                          *)
(*                                                                         *)
(* Strings whose characters the code inspects (paths, glob patterns) are   *)
(* sequences of one-character strings.  Dates are naturals, 0 being the    *)
(* zero time / "no date".                                                  *)
(***************************************************************************)
EXTENDS Integers, Sequences, FiniteSets, TLC

VARIABLES
    disk,        \* the content directory: path -> file on disk (or NoFile)
    FileName,    \* ContentStuff.FileName: path -> FileDetail (or NoEntry)
    SlugFileMap, \* ContentStuff.SlugFileMap: slug -> FileDetail (or NoEntry)
    queries,     \* Wire.queries: path -> sequence of QueryLocation
    last,        \* record of the last completed operation (history)
    reqs,        \* the edit requests in flight: request -> position and locals
    now,         \* the clock that stamps modification times
    steps,       \* number of operations performed so far
    arg,         \* input of the pure function under check
    ret          \* its result

vars == <<disk, FileName, SlugFileMap, queries, last, reqs, now, steps, arg, ret>>

(***************************************************************************)
(* Bounds                                                                  *)
(***************************************************************************)
MaxDepth == 3
MaxSteps == 3
MaxSaves == 2
MaxReqs == 2
MaxDate == 2

(***************************************************************************)
(* package strings / path/filepath                                         *)
(***************************************************************************)
Slash == "/"
Star == "*"

HasPrefix(s, p) == Len(p) <= Len(s) /\ SubSeq(s, 1, Len(p)) = p

HasSuffix(s, p) == Len(p) <= Len(s) /\ SubSeq(s, Len(s) - Len(p) + 1, Len(s)) = p

TrimSuffix(s, p) == IF HasSuffix(s, p) THEN SubSeq(s, 1, Len(s) - Len(p)) ELSE s

TrimPrefix(s, p) == IF HasPrefix(s, p) THEN SubSeq(s, Len(p) + 1, Len(s)) ELSE s

Contains(s, c) == \E i \in 1..Len(s) : s[i] = c

\* index of the last occurrence of c in s, 0 when there is none
LastIndex(s, c) ==
    IF Contains(s, c) THEN CHOOSE i \in 1..Len(s) : s[i] = c /\ \A j \in (i+1)..Len(s) : s[j] # c
    ELSE 0

\* strings.Split(s, "/")
RECURSIVE Split(_)
Split(s) ==
    IF ~Contains(s, Slash) THEN <<s>>
    ELSE LET i == CHOOSE k \in 1..Len(s) : s[k] = Slash /\ \A j \in 1..(k-1) : s[j] # Slash
         IN <<SubSeq(s, 1, i - 1)>> \o Split(SubSeq(s, i + 1, Len(s)))

\* strings.Join(parts, "/")
RECURSIVE JoinSlash(_)
JoinSlash(parts) ==
    IF parts = <<>> THEN <<>>
    ELSE IF Len(parts) = 1 THEN parts[1]
    ELSE parts[1] \o <<Slash>> \o JoinSlash(Tail(parts))

\* filepath.Dir on a clean path
Dir(path) ==
    LET i == LastIndex(path, Slash)
    IN IF i = 0 THEN <<".">>
       ELSE IF i = 1 THEN <<Slash>>
       ELSE SubSeq(path, 1, i - 1)

\* filepath.Base on a clean path
Base(path) ==
    IF path = <<>> THEN <<".">>
    ELSE SubSeq(path, LastIndex(path, Slash) + 1, Len(path))

\* filepath.Ext: the suffix beginning at the final dot of the last element
Ext(path) ==
    LET b == Base(path)
        i == LastIndex(b, ".")
    IN IF i = 0 THEN <<>> ELSE SubSeq(b, i, Len(b))

\* filepath.Match: '*' matches any sequence of non-separator characters, '?' one
\* non-separator character, every other character itself; the whole name must match
RECURSIVE Match(_, _)
Match(pattern, name) ==
    IF pattern = <<>> THEN name = <<>>
    ELSE IF Head(pattern) = Star
         THEN \/ Match(Tail(pattern), name)
              \/ name # <<>> /\ Head(name) # Slash /\ Match(pattern, Tail(name))
    ELSE IF Head(pattern) = "?"
         THEN name # <<>> /\ Head(name) # Slash /\ Match(Tail(pattern), Tail(name))
    ELSE name # <<>> /\ Head(name) = Head(pattern) /\ Match(Tail(pattern), Tail(name))

\* the characters of the model in byte order, for the comparison of strings
Alphabet == <<"*", ".", "/", "0", "1", "2", "?", "T", "U", "a", "b", "c", "d", "e", "h",
              "i", "l", "m", "n", "p", "q", "r", "s", "t", "x">>

Code(c) == CHOOSE i \in 1..Len(Alphabet) : Alphabet[i] = c

\* a < b on strings
RECURSIVE StrLess(_, _)
StrLess(a, b) ==
    IF b = <<>> THEN FALSE
    ELSE IF a = <<>> THEN TRUE
    ELSE IF Head(a) = Head(b) THEN StrLess(Tail(a), Tail(b))
    ELSE Code(Head(a)) < Code(Head(b))

(***************************************************************************)
(* Wire: path-glob matching                                                *)
(***************************************************************************)
RECURSIVE matchPathComponents(_, _)
matchPathComponents(pathParts, patternParts) ==
    IF patternParts = <<>> THEN pathParts = <<>>
    ELSE IF pathParts = <<>>
         THEN \A k \in 1..Len(patternParts) :
                  patternParts[k] = <<Star>> \/ patternParts[k] = <<Star, Star>>
    ELSE IF Head(patternParts) = <<Star, Star>>
         THEN \E i \in 0..Len(pathParts) :
                  matchPathComponents(SubSeq(pathParts, i + 1, Len(pathParts)),
                                      Tail(patternParts))
    ELSE IF Head(patternParts) = <<Star>>
         THEN matchPathComponents(Tail(pathParts), Tail(patternParts))
    ELSE IF Match(Head(patternParts), Head(pathParts))
         THEN matchPathComponents(Tail(pathParts), Tail(patternParts))
    ELSE FALSE

matchesPathPattern(filePath, pattern0) ==
    LET pattern == IF HasPrefix(pattern0, <<".", Slash>>)
                   THEN SubSeq(pattern0, 3, Len(pattern0)) ELSE pattern0
    IN IF Match(pattern, filePath) THEN TRUE
       ELSE IF HasSuffix(pattern, <<Star>>)
               /\ HasPrefix(filePath, TrimSuffix(pattern, <<Star>>)) THEN TRUE
       ELSE IF Contains(pattern, Slash)
            THEN IF HasSuffix(pattern, <<Slash, Star>>)
                 THEN LET dir == TrimSuffix(pattern, <<Slash, Star>>)
                          fileDir == Dir(filePath)
                      IN fileDir = dir \/ HasPrefix(fileDir, dir \o <<Slash>>)
                 ELSE IF Match(pattern, filePath) THEN TRUE
                 ELSE matchPathComponents(Split(filePath), Split(pattern))
       ELSE Match(pattern, Base(filePath))

(***************************************************************************)
(* Query language (query.go)                                               *)
(***************************************************************************)
QueryPosts == "posts"
QueryPages == "pages"
QueryBacklinks == "backlinks"

SortRecent == "recent"
SortDate == "date"
SortModified == "modified"
SortTitle == "title"

SortAsc == "asc"
SortDesc == "desc"

FormatList == "list"
FormatTable == "table"
FormatListWithDate == "list-date"
FormatDetailed == "detailed"

\* strings.ToLower on the attribute vocabulary of the model
ToLower(s) ==
    CASE s = "POSTS" -> "posts"
      [] s = "Pages" -> "pages"
      [] s = "Title" -> "title"
      [] s = "RECENT" -> "recent"
      [] s = "DESC" -> "desc"
      [] s = "Asc" -> "asc"
      [] s = "TABLE" -> "table"
      [] OTHER -> s

\* strconv.Atoi on the limit vocabulary of the model: decimal digits with an
\* optional sign parse, anything else is an error
Atoi(s) ==
    CASE s = "0" -> [ok |-> TRUE, val |-> 0]
      [] s = "1" -> [ok |-> TRUE, val |-> 1]
      [] s = "2" -> [ok |-> TRUE, val |-> 2]
      [] s = "5" -> [ok |-> TRUE, val |-> 5]
      [] s = "-1" -> [ok |-> TRUE, val |-> -1]
      [] OTHER -> [ok |-> FALSE, val |-> 0]

\* strings.Fields: the where clause is modelled as its sequence of fields
parseWhereClause(whereClause) ==
    IF Len(whereClause) < 3 THEN [err |-> TRUE, filter |-> <<>>]
    ELSE [err |-> FALSE,
          filter |-> <<[Field |-> whereClause[1], Operator |-> whereClause[2],
                        Value |-> SubSeq(whereClause, 3, Len(whereClause))]>>]

\* the include-private attribute of the contentstuff query parser
ParseIncludePrivate(x) == x.includePrivate

NilQuery == [Type |-> "", Path |-> <<>>, Sort |-> "", Order |-> "", Limit |-> 0,
             Filters |-> <<>>, HTMLTemplate |-> "", MDFormat |-> "",
             IncludePrivate |-> FALSE]

\* the default sort order: descending always (a slip the order default could have)
ParseQueryOrderDesc(x, sort) ==
    IF x.order # "" THEN ToLower(x.order) ELSE SortDesc

\* "Parse sort order"
ParseQueryOrder(x, sort) ==
    IF x.order # "" THEN ToLower(x.order)
    ELSE IF sort = SortRecent \/ sort = SortDate \/ sort = SortModified
         THEN SortDesc ELSE SortAsc

\* x is the decoded tag: its attributes (absent = empty), and whether
\* xml.Unmarshal accepted it
ParseQuery(x) ==
    IF ~x.wellFormed THEN [err |-> TRUE, ast |-> NilQuery]
    ELSE IF ToLower(x.type) \notin {"posts", "pages", "backlinks"}
         THEN [err |-> TRUE, ast |-> NilQuery]
    ELSE LET sort == IF x.sort # "" THEN ToLower(x.sort) ELSE SortRecent
             order == ParseQueryOrder(x, sort)
             limit == IF x.limit # "" /\ Atoi(x.limit).ok THEN Atoi(x.limit).val ELSE 0
             fmt == IF x.mdformat # "" THEN ToLower(x.mdformat) ELSE FormatListWithDate
             w == parseWhereClause(x.where)
             tagf == IF x.tag # ""
                     THEN <<[Field |-> "tag", Operator |-> "contains", Value |-> <<x.tag>>]>>
                     ELSE <<>>
         IN IF x.where # <<>> /\ w.err THEN [err |-> TRUE, ast |-> NilQuery]
            ELSE [err |-> FALSE,
                  ast |-> [Type |-> ToLower(x.type), Path |-> x.path, Sort |-> sort,
                           Order |-> order, Limit |-> limit,
                           Filters |-> (IF x.where # <<>> THEN w.filter ELSE <<>>) \o tagf,
                           HTMLTemplate |-> x.htmlTemplate, MDFormat |-> fmt,
                           IncludePrivate |-> ParseIncludePrivate(x)]]

\* a tag with only the given type, path and limit
Tag(type, path, limit) ==
    [wellFormed |-> TRUE, type |-> type, path |-> path, sort |-> "", order |-> "",
     limit |-> limit, mdformat |-> "", where |-> <<>>, tag |-> "",
     htmlTemplate |-> "", includePrivate |-> FALSE]


(***************************************************************************)
(* Documents.  A file is a sequence of lines; a line is a record whose k   *)
(* field tells what the line is: "fm" a frontmatter block, "badfm" a       *)
(* frontmatter block that does not decode, "start" / "end" the sentinel    *)
(* comments of a query block, "text" author text, and the lines that       *)
(* formatResults produces ("item", "date", "tags", "row").                 *)
(***************************************************************************)
FileTypeMarkdown == "markdown"
FileTypeHTML == "html"
FileTypeDirectory == "directory"

MD == <<".", "m", "d">>
HTML == <<".", "h", "t", "m", "l">>
IndexMd == <<"i", "n", "d", "e", "x">> \o MD

DirRoot == <<".">>
DirB == <<"b">>
DirS == <<"b", "/", "s">>
PIdx == DirB \o <<Slash>> \o IndexMd
PP == DirB \o <<Slash, "p">> \o MD
PQ == DirB \o <<Slash, "q">> \o MD
PR == DirS \o <<Slash, "r">> \o MD

Dirs == {DirRoot, DirB, DirS}
Files == {PIdx, PP, PQ, PR}
Paths == Dirs \cup Files

\* the order in which filepath.Walk visits the content directory (lexical)
WalkOrder == <<DirRoot, DirB, PIdx, PP, PQ, DirS, PR>>

NoFile == [exists |-> FALSE, isDir |-> FALSE, lines |-> <<>>, mtime |-> 0]
DirOnDisk(t) == [exists |-> TRUE, isDir |-> TRUE, lines |-> <<>>, mtime |-> t]
FileOnDisk(l, t) == [exists |-> TRUE, isDir |-> FALSE, lines |-> l, mtime |-> t]

FmLine(private, created) ==
    [k |-> "fm", private |-> private, created |-> created, slug |-> <<>>, title |-> <<>>]
BadFmLine == [k |-> "badfm"]
StartLine(x) == [k |-> "start", q |-> x]
EndLine == [k |-> "end"]
TextLine(n) == [k |-> "text", n |-> n]

NilFrontmatter == [nil |-> TRUE, private |-> FALSE, created |-> 0, slug |-> <<>>, title |-> <<>>]
NilParsedContent == [nil |-> TRUE, Frontmatter |-> NilFrontmatter, Body |-> <<>>, Hashtags |-> <<>>]

\* MarkdownParser.Parse: the frontmatter block is decoded and taken off the body
Parse(lines) ==
    IF lines # <<>> /\ lines[1].k = "badfm" THEN [err |-> TRUE, pc |-> NilParsedContent]
    ELSE IF lines # <<>> /\ lines[1].k = "fm"
         THEN [err |-> FALSE,
               pc |-> [nil |-> FALSE,
                       Frontmatter |-> [nil |-> FALSE, private |-> lines[1].private,
                                        created |-> lines[1].created,
                                        slug |-> lines[1].slug, title |-> lines[1].title],
                       Body |-> Tail(lines), Hashtags |-> <<>>]]
    ELSE [err |-> FALSE,
          pc |-> [nil |-> FALSE, Frontmatter |-> NilFrontmatter, Body |-> lines,
                  Hashtags |-> <<>>]]

\* ParsedContent.ToMarkdown: the marshalled frontmatter (none for a nil one), then the body
ToMarkdown(pc) ==
    IF pc.Frontmatter.nil THEN pc.Body
    ELSE <<[k |-> "fm", private |-> pc.Frontmatter.private,
            created |-> pc.Frontmatter.created, slug |-> pc.Frontmatter.slug,
            title |-> pc.Frontmatter.title]>> \o pc.Body

NoEntry == [present |-> FALSE, FileName |-> <<>>, FileType |-> "", ModifiedAt |-> 0,
            CreatedAt |-> 0, ParsedContent |-> NilParsedContent]

(***************************************************************************)
(* Page (page.go)                                                          *)
(***************************************************************************)
PageTitle(f) ==
    IF ~f.ParsedContent.nil /\ ~f.ParsedContent.Frontmatter.nil
       /\ f.ParsedContent.Frontmatter.title # <<>>
    THEN f.ParsedContent.Frontmatter.title
    ELSE TrimSuffix(Base(f.FileName), Ext(Base(f.FileName)))

\* filepath.Join(dir, slug) for a one-element slug
PageSlug(f) ==
    IF ~f.ParsedContent.nil /\ ~f.ParsedContent.Frontmatter.nil
       /\ f.ParsedContent.Frontmatter.slug # <<>>
    THEN IF Dir(f.FileName) = <<".">> THEN f.ParsedContent.Frontmatter.slug
         ELSE Dir(f.FileName) \o <<Slash>> \o f.ParsedContent.Frontmatter.slug
    ELSE TrimSuffix(f.FileName, Ext(f.FileName))

\* Page.DateCreated: 0 stands for the nil result
DateCreated(f) ==
    IF ~f.ParsedContent.nil /\ ~f.ParsedContent.Frontmatter.nil
       /\ f.ParsedContent.Frontmatter.created # 0
    THEN f.ParsedContent.Frontmatter.created
    ELSE IF f.CreatedAt # 0 THEN f.CreatedAt
    ELSE 0

PageIsPrivate(f) ==
    IF ~f.ParsedContent.nil /\ ~f.ParsedContent.Frontmatter.nil
    THEN f.ParsedContent.Frontmatter.private
    ELSE FALSE

PageHashtags(f) == IF ~f.ParsedContent.nil THEN f.ParsedContent.Hashtags ELSE <<>>

(***************************************************************************)
(* ContentStuff (contentstuff.go).  The state of the program is the record *)
(* S = [disk, FileName, SlugFileMap, queries, now]; an operation maps S to *)
(* [s |-> the state after, res |-> "ok", "error" or "panic"].               *)
(***************************************************************************)
Slugs == {TrimSuffix(p, Ext(p)) : p \in Files}

\* the files of the index; the order of a Go map iteration is left open by
\* every definition that uses them
AllFiles(S) == {S.FileName[p] : p \in {q \in Paths : S.FileName[q].present}}

DoPath(S, p) ==
    IF p \in Paths /\ S.FileName[p].present THEN S.FileName[p]
    ELSE IF p \in Slugs /\ S.SlugFileMap[p].present THEN S.SlugFileMap[p]
    ELSE NoEntry

\* scanContentPath with info == nil; relPath is the path below the content directory
scanContentPath(S, relPath) ==
    IF relPath \notin Paths \/ ~S.disk[relPath].exists THEN [s |-> S, res |-> "error"]
    ELSE IF S.disk[relPath].isDir
    THEN [s |-> [S EXCEPT !.FileName[relPath] =
                    [present |-> TRUE, FileName |-> relPath, FileType |-> FileTypeDirectory,
                     ModifiedAt |-> S.disk[relPath].mtime, CreatedAt |-> S.disk[relPath].mtime,
                     ParsedContent |-> NilParsedContent]],
          res |-> "ok"]
    ELSE IF Ext(relPath) = MD \/ Ext(relPath) = HTML
    THEN IF S.FileName[relPath].present
            /\ S.FileName[relPath].ModifiedAt = S.disk[relPath].mtime
         THEN [s |-> S, res |-> "ok"]
         ELSE LET r == Parse(S.disk[relPath].lines)
                  fd == [present |-> TRUE, FileName |-> relPath,
                         FileType |-> IF Ext(relPath) = MD THEN FileTypeMarkdown
                                      ELSE FileTypeHTML,
                         ModifiedAt |-> S.disk[relPath].mtime,
                         CreatedAt |-> S.disk[relPath].mtime,
                         ParsedContent |-> r.pc]
              IN IF r.err THEN [s |-> S, res |-> "error"]
                 ELSE IF PageSlug(fd) # <<>>
                 THEN [s |-> [S EXCEPT !.FileName[relPath] = fd,
                                       !.SlugFileMap[PageSlug(fd)] = fd],
                       res |-> "ok"]
                 ELSE [s |-> [S EXCEPT !.FileName[relPath] = fd], res |-> "ok"]
    ELSE [s |-> S, res |-> "ok"]

RefreshContentRescan(S, path) ==
    scanContentPath([S EXCEPT !.FileName[path] = NoEntry], path)

RefreshContent(S, path) == scanContentPath(S, path)

\* filepath.Walk over the content directory; the first error ends the walk
RECURSIVE walk(_, _)
walk(S, i) ==
    IF i > Len(WalkOrder) THEN [s |-> S, res |-> "ok"]
    ELSE IF ~S.disk[WalkOrder[i]].exists THEN walk(S, i + 1)
    ELSE LET r == scanContentPath(S, WalkOrder[i])
         IN IF r.res # "ok" THEN r ELSE walk(r.s, i + 1)

LoadContent(S) == walk(S, 1)

\* WriteContentFile / WriteFile: the directories are made, the file is written;
\* ioFail says the operating system refuses the write
WriteContentFile(S, fileName, content, ioFail) ==
    IF ioFail \/ fileName \notin Files THEN [s |-> S, res |-> "error"]
    ELSE LET mk(d) == IF S.disk[d].exists THEN S.disk[d] ELSE DirOnDisk(S.now)
             withDirs == [p \in Paths |->
                             IF p \in Dirs /\ HasPrefix(fileName, p \o <<Slash>>)
                             THEN mk(p) ELSE S.disk[p]]
         IN [s |-> [S EXCEPT !.disk = [withDirs EXCEPT ![fileName] = FileOnDisk(content, S.now)]],
             res |-> "ok"]


(***************************************************************************)
(* Wire: scanning                                                          *)
(***************************************************************************)
\* a variant in which a block counts as open before any start sentinel was seen
NoCurrentOpen == [open |-> TRUE, StartLine |-> 0, Content |-> <<>>,
                  rawQuery |-> Tag("posts", <<>>, "")]

NoCurrent == [open |-> FALSE, StartLine |-> 0, Content |-> <<>>, rawQuery |-> Tag("", <<>>, "")]

\* the loop of extractQueriesFromContent from line i (numbered from 0, as in the code)
RECURSIVE extractLoop(_, _, _, _, _)
extractLoop(filePath, lines, i, currentQuery, qs) ==
    IF i >= Len(lines) THEN qs
    ELSE LET line == lines[i + 1]
         IN IF line.k = "start"
            THEN extractLoop(filePath, lines, i + 1,
                             [open |-> TRUE, StartLine |-> i, Content |-> <<>>,
                              rawQuery |-> line.q], qs)
            ELSE IF line.k = "end" /\ currentQuery.open
            THEN LET r == ParseQuery(currentQuery.rawQuery)
                 IN IF r.err THEN extractLoop(filePath, lines, i + 1, NoCurrent, qs)
                    ELSE extractLoop(filePath, lines, i + 1, NoCurrent,
                                     Append(qs, [Query |-> r.ast,
                                                 StartLine |-> currentQuery.StartLine,
                                                 EndLine |-> i, FilePath |-> filePath,
                                                 Content |-> currentQuery.Content]))
            ELSE IF currentQuery.open
            THEN extractLoop(filePath, lines, i + 1,
                             [currentQuery EXCEPT !.Content = Append(@, line)], qs)
            ELSE extractLoop(filePath, lines, i + 1, currentQuery, qs)

\* a variant that gives up at the first block whose query does not parse
extractQueriesFromContentUntilBad(filePath, lines) ==
    LET bad == {i \in DOMAIN lines : lines[i].k = "start" /\ ParseQuery(lines[i].q).err}
    IN  IF bad = {} THEN extractLoop(filePath, lines, 0, NoCurrent, <<>>)
        ELSE extractLoop(filePath,
                         SubSeq(lines, 1, (CHOOSE i \in bad : \A j \in bad : i <= j) - 1),
                         0, NoCurrent, <<>>)

extractQueriesFromContent(filePath, lines) == extractLoop(filePath, lines, 0, NoCurrent, <<>>)

IsContent(fd) == fd.FileType = FileTypeMarkdown \/ fd.FileType = FileTypeHTML

\* ScanForQueries: the set of its outcomes.  Without a read error every content
\* file with at least one query gets its fresh locations and no other entry
\* changes; with one, the files visited before it (any of the readable ones, the
\* map order being open) have been updated.
ScanForQueries(S) ==
    LET content == {fd.FileName : fd \in {f \in AllFiles(S) : IsContent(f)}}
        readable == {p \in content : S.disk[p].exists /\ ~S.disk[p].isDir}
        scanned(T) == [p \in Paths |->
                          IF p \in T /\ extractQueriesFromContent(p, S.disk[p].lines) # <<>>
                          THEN extractQueriesFromContent(p, S.disk[p].lines)
                          ELSE S.queries[p]]
    IN IF readable = content
       THEN {[s |-> [S EXCEPT !.queries = scanned(content)], res |-> "ok"]}
       ELSE {[s |-> [S EXCEPT !.queries = scanned(T)], res |-> "error"] : T \in SUBSET readable}

ScanContentFileForQueries(S, filePath) ==
    LET fileDetail == DoPath(S, filePath)
    IN IF ~fileDetail.present THEN [s |-> S, res |-> "error"]
       ELSE IF ~IsContent(fileDetail) THEN [s |-> S, res |-> "ok"]
       ELSE IF filePath \notin Files \/ ~S.disk[filePath].exists
       THEN [s |-> S, res |-> "error"]
       ELSE [s |-> [S EXCEPT !.queries[filePath] =
                       extractQueriesFromContent(filePath, S.disk[filePath].lines)],
             res |-> "ok"]

(***************************************************************************)
(* Wire: query execution                                                   *)
(***************************************************************************)
\* a variant without the check: every candidate passes
applyAccessControlAll(ctx, posts, query) == posts

applyAccessControl(ctx, posts, query) ==
    LET isCtxPrivate == PageIsPrivate(ctx)
    IN {post \in posts :
           \/ isCtxPrivate
           \/ ~PageIsPrivate(post)
           \/ query.IncludePrivate}

fileMatchesFilter(file, filter) ==
    /\ filter.Field = "tag"
    /\ ~file.ParsedContent.nil
    /\ \E i \in 1..Len(file.ParsedContent.Hashtags) :
           /\ filter.Operator \in {"contains", "equals"}
           /\ file.ParsedContent.Hashtags[i] = filter.Value

applyFiltersToFiles(files, filters) ==
    {file \in files : \A i \in 1..Len(filters) : fileMatchesFilter(file, filters[i])}

\* a variant that compares a missing date as the zero time
sortLessZeroTime(fi, fj, query) ==
    IF query.Sort \in {SortDate, SortModified, SortRecent}
    THEN IF query.Order = SortDesc THEN DateCreated(fi) > DateCreated(fj)
         ELSE DateCreated(fi) < DateCreated(fj)
    ELSE FALSE

\* the less function handed to sort.Slice
sortLess(fi, fj, query) ==
    IF query.Sort \in {SortDate, SortModified, SortRecent}
    THEN LET datei == DateCreated(fi)
             datej == DateCreated(fj)
         IN IF datei = 0 /\ datej = 0 THEN FALSE
            ELSE IF datei = 0 THEN FALSE
            ELSE IF datej = 0 THEN TRUE
            ELSE IF query.Order = SortDesc THEN datei > datej
            ELSE datei < datej
    ELSE IF query.Sort = SortTitle
    THEN IF query.Order = SortDesc THEN StrLess(PageTitle(fj), PageTitle(fi))
         ELSE StrLess(PageTitle(fi), PageTitle(fj))
    ELSE FALSE

Orderings(files) ==
    {f \in [1..Cardinality(files) -> files] : \A i, j \in 1..Cardinality(files) : i # j => f[i] # f[j]}

\* applySortToFiles: sort.Slice is not stable and the candidates come in the
\* order of a map iteration, so the result is any ordering of the files that
\* the less function accepts as sorted
applySortToFiles(files, query) ==
    IF query.Sort = "" THEN Orderings(files)
    ELSE {f \in Orderings(files) :
             \A i, j \in 1..Len(f) : i < j => ~sortLess(f[j], f[i], query)}

\* a variant that cuts one too late
applyLimitToFilesOneMore(files, query) ==
    IF query.Limit > 0 /\ Len(files) > query.Limit + 1
    THEN SubSeq(files, 1, query.Limit + 1)
    ELSE files

applyLimitToFiles(files, query) ==
    IF query.Limit > 0 /\ Len(files) > query.Limit THEN SubSeq(files, 1, query.Limit)
    ELSE files

\* time.Format("2006-01-02"): the day of a time, two ticks of the clock to a day
FormatDate(t) == t \div 2

formatOne(file, format) ==
    LET title == PageTitle(file)
        slug == <<Slash>> \o TrimPrefix(PageSlug(file), <<Slash>>)
        date == FormatDate(DateCreated(file))
        item == [k |-> "item", title |-> title, slug |-> slug]
    IN IF format = FormatList THEN <<item>>
       ELSE IF format = FormatListWithDate
       THEN <<[k |-> "item-date", date |-> date, title |-> title, slug |-> slug]>>
       ELSE IF format = FormatDetailed
       THEN <<item, [k |-> "date", date |-> date]>>
            \o (IF Len(PageHashtags(file)) > 0
                THEN <<[k |-> "tags", tags |-> PageHashtags(file)]>> ELSE <<>>)
       ELSE IF format = FormatTable
       THEN <<[k |-> "row", title |-> title, date |-> date]>>
       ELSE <<item>>

RECURSIVE formatAll(_, _)
formatAll(files, format) ==
    IF files = <<>> THEN <<>>
    ELSE formatOne(Head(files), format) \o formatAll(Tail(files), format)

\* formatResults: Format on the nil date of a file without one is a nil dereference
formatResults(files, format) ==
    IF \E i \in 1..Len(files) : DateCreated(files[i]) = 0
    THEN [lines |-> <<>>, res |-> "panic"]
    ELSE [lines |-> formatAll(files, format), res |-> "ok"]

IsIndexMd(name) == HasSuffix(name, IndexMd)

\* the condition of the first loop of executePostsQuery: the file is a candidate
isPost(file, query) ==
    /\ IsContent(file)
    /\ ~IsIndexMd(file.FileName)
    /\ (query.Path # <<>> => matchesPathPattern(file.FileName, query.Path))

\* executePostsQuery: the set of results it can return
executePostsQuery(S, ctx, query) ==
    LET posts == {file \in AllFiles(S) : isPost(file, query)}
        allowed == applyAccessControl(ctx, posts, query)
        filtered == applyFiltersToFiles(allowed, query.Filters)
    IN {formatResults(applyLimitToFiles(sorted, query), query.MDFormat) :
           sorted \in applySortToFiles(filtered, query)}

executeQuery(S, ctx, query) ==
    IF query.Type = QueryPosts THEN executePostsQuery(S, ctx, query)
    ELSE {[lines |-> <<>>, res |-> "error"]}


(***************************************************************************)
(* Wire: materialization                                                   *)
(***************************************************************************)
\* updateQuery: the set of its outcomes, one for each result the query can give
updateQuery(S, fileCtx, location, ioFail) ==
    {IF r.res # "ok" THEN [s |-> S, res |-> r.res]
     ELSE IF ~S.disk[location.FilePath].exists THEN [s |-> S, res |-> "error"]
     ELSE LET lines == S.disk[location.FilePath].lines
          IN IF location.StartLine + 1 > Len(lines) THEN [s |-> S, res |-> "panic"]
             ELSE WriteContentFile(S, location.FilePath,
                      SubSeq(lines, 1, location.StartLine + 1)
                      \o r.lines
                      \o (IF location.EndLine < Len(lines)
                          THEN SubSeq(lines, location.EndLine + 1, Len(lines))
                          ELSE <<>>),
                      ioFail)
     : r \in executeQuery(S, fileCtx, location.Query)}

\* the loop of NotifyFileChanged over the locations from the i-th on
RECURSIVE notifyLoop(_, _, _, _, _)
notifyLoop(S, fileCtx, fileQueries, i, ioFail) ==
    IF i > Len(fileQueries) THEN {[s |-> S, res |-> "ok"]}
    ELSE UNION {IF o.res # "ok" THEN {o}
                ELSE notifyLoop(o.s, fileCtx, fileQueries, i + 1, ioFail)
                : o \in updateQuery(S, fileCtx, fileQueries[i], ioFail)}

NotifyFileChanged(S, filePath, ioFail) ==
    LET fileCtx == DoPath(S, filePath)
    IN IF ~fileCtx.present THEN {[s |-> S, res |-> "error"]}
       ELSE IF filePath \notin Paths THEN {[s |-> S, res |-> "ok"]}
       ELSE notifyLoop(S, fileCtx, S.queries[filePath], 1, ioFail)

shouldRefreshQuery(query, modifiedFile, fileDetail) ==
    IF query.FilePath = modifiedFile THEN FALSE
    ELSE IF query.Query.Type \in {QueryPosts, QueryPages}
    THEN IF IsContent(fileDetail)
         THEN IF query.Query.Path # <<>>
              THEN matchesPathPattern(modifiedFile, query.Query.Path)
              ELSE ~IsIndexMd(modifiedFile)
         ELSE FALSE
    ELSE FALSE

\* FindDependencies: the documents holding a query that the changed file affects
FindDependencies(S, filePath) ==
    {p \in Files : \E i \in 1..Len(S.queries[p]) :
        shouldRefreshQuery(S.queries[p][i], filePath, DoPath(S, filePath))}

\* TriggerDependencyUpdates: NotifyFileChanged for every dependent document,
\* the first failure ending it
RECURSIVE triggerLoop(_, _)
triggerLoop(S, deps) ==
    IF deps = {} THEN {[s |-> S, res |-> "ok"]}
    ELSE LET d == CHOOSE x \in deps : TRUE
         IN UNION {IF o.res # "ok" THEN {o} ELSE triggerLoop(o.s, deps \ {d})
                   : o \in NotifyFileChanged(S, d, FALSE)}

TriggerDependencyUpdates(S, filePath) == triggerLoop(S, FindDependencies(S, filePath))


(***************************************************************************)
(* SaveFileDetail.  fault names the step whose I/O the operating system    *)
(* fails ("" for none); dt is the time that passes between the write of    *)
(* the document and the notification (0: both fall into one tick of the    *)
(* file system's clock).  An outcome carries the trace of the steps that   *)
(* ran.                                                                    *)
(***************************************************************************)
SaveSteps == <<"ToMarkdown", "WriteContentFile", "RefreshContent",
               "ScanContentFileForQueries", "NotifyFileChanged", "RefreshContentDir",
               "RefreshContentFile", "TriggerDependencyUpdates", "FindDependencies">>

Failed(o, name, fault) == IF fault = name THEN [s |-> o.s, res |-> "error"] ELSE o

\* the loop over FindDependencies: refresh and rescan of every dependent
\* document that is on disk, errors being logged only
RECURSIVE dependentsLoop(_, _)
dependentsLoop(S, deps) ==
    IF deps = {} THEN S
    ELSE LET ip == CHOOSE x \in deps : TRUE
         IN IF ~S.disk[ip].exists THEN dependentsLoop(S, deps \ {ip})
            ELSE dependentsLoop(
                     ScanContentFileForQueries(RefreshContent(S, ip).s, ip).s,
                     deps \ {ip})

\* the i-th step of SaveFileDetail on a markdown document: the set of its
\* outcomes.  The errors of the last two steps are logged, not returned: when
\* the I/O of the last step fails, no dependent document is refreshed or
\* rescanned and the step goes on.
SaveStep(S, fd, i, fault) ==
    CASE i = 1 -> {Failed([s |-> S, res |-> "ok"], "ToMarkdown", fault)}
      [] i = 2 -> {WriteContentFile(S, fd.FileName, ToMarkdown(fd.ParsedContent),
                                    fault = "WriteContentFile")}
      [] i = 3 -> {Failed(RefreshContent(S, fd.FileName), "RefreshContent", fault)}
      [] i = 4 -> {Failed(ScanContentFileForQueries(S, fd.FileName),
                          "ScanContentFileForQueries", fault)}
      [] i = 5 -> NotifyFileChanged(S, fd.FileName, fault = "NotifyFileChanged")
      [] i = 6 -> {Failed(RefreshContent(S, Dir(fd.FileName)), "RefreshContentDir", fault)}
      [] i = 7 -> {Failed(RefreshContent(S, fd.FileName), "RefreshContentFile", fault)}
      [] i = 8 -> {[s |-> t.s, res |-> IF t.res = "panic" THEN "panic" ELSE "ok"]
                   : t \in TriggerDependencyUpdates(S, fd.FileName)}
      [] OTHER -> {[s |-> IF fault = "FindDependencies" THEN S
                           ELSE dependentsLoop(S, FindDependencies(S, fd.FileName)),
                    res |-> "ok"]}

\* the steps from the i-th on; check says whether the error of a step ends the
\* save (as the code has it); dt ticks pass between the rescan and the notify
RECURSIVE saveFrom(_, _, _, _, _, _)
saveFrom(S, fd, fault, dt, i, check) ==
    IF i > Len(SaveSteps) THEN {[s |-> S, res |-> "ok", trace |-> SaveSteps]}
    ELSE UNION {IF o.res = "panic" \/ (o.res # "ok" /\ check)
                THEN {[s |-> o.s, res |-> o.res, trace |-> SubSeq(SaveSteps, 1, i)]}
                ELSE saveFrom(o.s, fd, fault, dt, i + 1, check)
                : o \in SaveStep(IF i = 5 THEN [S EXCEPT !.now = @ + dt] ELSE S,
                                 fd, i, fault)}

\* a variant without the checks: the name is not looked at and the error of a
\* failed step is dropped
SaveFileDetailNoCheck(S, fd, fault, dt) == saveFrom(S, fd, fault, dt, 1, FALSE)

SaveFileDetail(S, fd, fault, dt) ==
    IF fd.FileName = <<>> THEN {[s |-> S, res |-> "error", trace |-> <<>>]}
    ELSE IF fd.FileType = FileTypeMarkdown THEN saveFrom(S, fd, fault, dt, 1, TRUE)
    ELSE IF fd.FileType = FileTypeHTML
    THEN LET w == WriteContentFile(S, fd.FileName, fd.ParsedContent.Body,
                                   fault = "WriteContentFile")
         IN {[s |-> w.s, res |-> w.res, trace |-> <<"WriteContentFile">>]}
    ELSE {[s |-> S, res |-> "ok", trace |-> <<>>]}


(***************************************************************************)
(* The content the model runs on                                           *)
(***************************************************************************)
BStar == DirB \o <<Slash, Star>>
BStarStar == DirB \o <<Slash, Star, Star>>

QRecent2 == Tag("posts", BStar, "2")
QRecent1 == Tag("posts", BStar, "1")
QAll == Tag("posts", BStarStar, "")
QAllPrivate == [QAll EXCEPT !.includePrivate = TRUE]
QPages == Tag("pages", <<>>, "")
QBogus == Tag("bogus", <<>>, "")

\* the bodies an index document is given: one block with an empty region, one
\* block holding two lines of an earlier materialization, two blocks, a pages
\* block before a posts block, and a block that asks for private documents
IndexBodies ==
    {<<StartLine(QRecent2), EndLine>>,
     <<TextLine(1), StartLine(QRecent1), TextLine(8), TextLine(9), EndLine, TextLine(2)>>,
     <<StartLine(QRecent2), EndLine, TextLine(1), StartLine(QAll), EndLine>>,
     <<StartLine(QPages), EndLine, StartLine(QRecent2), EndLine>>,
     <<StartLine(QAllPrivate), EndLine>>}

Doc(name, private, created, body) ==
    [present |-> TRUE, FileName |-> name, FileType |-> FileTypeMarkdown,
     ModifiedAt |-> 0, CreatedAt |-> 0,
     ParsedContent |-> [nil |-> FALSE,
                        Frontmatter |-> [nil |-> FALSE, private |-> private,
                                         created |-> created, slug |-> <<>>,
                                         title |-> <<>>],
                        Body |-> body, Hashtags |-> <<>>]]

\* the documents the edit endpoint is asked to save
SaveDocs ==
    {Doc(PR, private, 6, <<TextLine(1)>>) : private \in BOOLEAN}
    \cup {Doc(PP, TRUE, 2, <<TextLine(1)>>)}
    \cup {Doc(PIdx, FALSE, 0, <<StartLine(QRecent2), EndLine>>)}
    \cup {Doc(PIdx, FALSE, 0, <<StartLine(QPages), EndLine>>)}
    \cup {Doc(<<>>, FALSE, 0, <<TextLine(1)>>)}

\* dt0 is the time that passes before the request is handled
SaveCases ==
    {[fd |-> fd, fault |-> "", dt0 |-> dt0, dt |-> 0]
        : fd \in {d \in SaveDocs : d.FileName # PIdx}, dt0 \in {0, 1}}
    \cup {[fd |-> fd, fault |-> "", dt0 |-> dt0, dt |-> dt]
        : fd \in {d \in SaveDocs : d.FileName = PIdx}, dt0 \in {0, 1}, dt \in {0, 1}}
    \cup {[fd |-> Doc(PR, FALSE, 6, <<TextLine(1)>>), fault |-> SaveSteps[i],
           dt0 |-> 1, dt |-> 0] : i \in 1..7}
    \cup {[fd |-> Doc(PIdx, FALSE, 0, <<StartLine(QRecent2), EndLine>>),
           fault |-> "NotifyFileChanged", dt0 |-> 1, dt |-> 0]}
    \cup {[fd |-> Doc(PR, FALSE, 6, <<TextLine(1)>>), fault |-> "FindDependencies",
           dt0 |-> 1, dt |-> 0]}

NoArg == [f |-> "none"]
NoRet == [done |-> FALSE]
NoLast == [op |-> "none", path |-> <<>>, res |-> "ok", trace |-> <<>>, fault |-> "",
           fd |-> NoEntry, pre |-> [p \in Files |-> <<>>], fresh |-> FALSE,
           second |-> FALSE, idx |-> <<>>]

(***************************************************************************)
(* Spec: the operations of the content store and of Wire, one at a time    *)
(***************************************************************************)
St == [disk |-> disk, FileName |-> FileName, SlugFileMap |-> SlugFileMap,
       queries |-> queries, now |-> now]

\* the state after dt ticks of the clock
Later(S, dt) == [S EXCEPT !.now = @ + dt]

Fresh(S, p) ==
    /\ p \in Files
    /\ S.disk[p].exists
    /\ S.queries[p] = extractQueriesFromContent(p, S.disk[p].lines)

Apply(o) ==
    /\ disk' = o.s.disk
    /\ FileName' = o.s.FileName
    /\ SlugFileMap' = o.s.SlugFileMap
    /\ queries' = o.s.queries
    /\ now' = o.s.now

Record(op, path, res, trace, fault, fd) ==
    last' = [op |-> op, path |-> path, res |-> res, trace |-> trace, fault |-> fault,
             fd |-> fd, pre |-> [p \in Files |-> disk[p].lines],
             fresh |-> Fresh(St, path),
             idx |-> IF op = "RefreshContent"
                     THEN [FileName |-> FileName, SlugFileMap |-> SlugFileMap] ELSE <<>>,
             second |-> /\ op = "NotifyFileChanged"
                        /\ last.op = "NotifyFileChanged"
                        /\ last.path = path /\ last.res = "ok" /\ last.fresh]

Step == steps < MaxSteps /\ steps' = steps + 1 /\ UNCHANGED <<reqs, arg, ret>>

\* the content directory the server is started on
InitialDisk(body, idxPrivate, pPrivate, nested) ==
    [p \in Paths |->
        IF p \in {DirRoot, DirB} THEN DirOnDisk(1)
        ELSE IF p = PIdx THEN FileOnDisk(<<FmLine(idxPrivate, 0)>> \o body, 1)
        ELSE IF p = PP THEN FileOnDisk(<<FmLine(pPrivate, 2), TextLine(1)>>, 1)
        ELSE IF p = PQ THEN FileOnDisk(<<FmLine(FALSE, 4), TextLine(1)>>, 1)
        ELSE IF p = DirS /\ nested THEN DirOnDisk(1)
        ELSE IF p = PR /\ nested THEN FileOnDisk(<<FmLine(FALSE, 6), TextLine(1)>>, 1)
        ELSE NoFile]

InitialDisks ==
    {InitialDisk(body, idxPrivate, pPrivate, nested)
        : body \in IndexBodies, idxPrivate \in BOOLEAN, pPrivate \in BOOLEAN,
          nested \in BOOLEAN}

\* NewContentStuff and NewWire: empty maps
Constructed(d) ==
    [disk |-> d, FileName |-> [p \in Paths |-> NoEntry],
     SlugFileMap |-> [p \in Slugs |-> NoEntry], queries |-> [p \in Paths |-> <<>>],
     now |-> 1]

StoreIs(S) ==
    /\ disk = S.disk
    /\ FileName = S.FileName
    /\ SlugFileMap = S.SlugFileMap
    /\ queries = S.queries
    /\ now = S.now
    /\ last = NoLast
    /\ steps = 0

Starts(S) == StoreIs(S) /\ arg = NoArg /\ ret = NoRet

\* StartServer up to NewWire: the content store is constructed and loaded, the
\* Wire is constructed on it
Init ==
    /\ \E d \in InitialDisks : Starts(LoadContent(Constructed(d)).s)
    /\ reqs = <<>>

DoLoadContent ==
    /\ Step
    /\ Apply(LoadContent(St))
    /\ Record("LoadContent", <<>>, LoadContent(St).res, <<>>, "", NoEntry)

DoScanForQueries ==
    /\ Step
    /\ \E o \in ScanForQueries(St) :
           Apply(o) /\ Record("ScanForQueries", <<>>, o.res, <<>>, "", NoEntry)

DoScanContentFileForQueries ==
    /\ Step
    /\ \E p \in Files :
           /\ Apply(ScanContentFileForQueries(St, p))
           /\ Record("ScanContentFileForQueries", p,
                     ScanContentFileForQueries(St, p).res, <<>>, "", NoEntry)

\* dt: the time that has passed since the last write
DoNotifyFileChanged ==
    /\ Step
    /\ \E p \in Files, dt \in {0, 1} : \E o \in NotifyFileChanged(Later(St, dt), p, FALSE) :
           Apply(o) /\ Record("NotifyFileChanged", p, o.res, <<>>, "", NoEntry)

DoRefreshContent ==
    /\ Step
    /\ \E p \in Files :
           /\ Apply(RefreshContent(St, p))
           /\ Record("RefreshContent", p, RefreshContent(St, p).res, <<>>, "", NoEntry)

Next ==
    \/ DoLoadContent
    \/ DoScanForQueries
    \/ DoScanContentFileForQueries
    \/ DoNotifyFileChanged
    \/ DoRefreshContent

Spec == Init /\ [][Next]_vars


(***************************************************************************)
(* SpecSave: the running server.  StartServer has loaded the content,      *)
(* scanned it for queries and notified and refreshed every index file;     *)
(* from then on the edit endpoint saves documents, one request at a time.  *)
(***************************************************************************)
IsIndexFile(name) == HasSuffix(name, IndexMd) \/ HasSuffix(name, <<"i", "n", "d", "e", "x">> \o HTML)

\* the loop of StartServer over the index files: notify, then refresh, a failure
\* of either being logged only
RECURSIVE startLoop(_, _)
startLoop(S, names) ==
    IF names = {} THEN {S}
    ELSE LET fname == CHOOSE x \in names : TRUE
         IN UNION {startLoop(RefreshContent(o.s, fname).s, names \ {fname})
                   : o \in {n \in NotifyFileChanged(S, fname, FALSE) : n.res # "panic"}}

StartServer(d) ==
    LET loaded == LoadContent(Constructed(d))
    IN IF loaded.res # "ok" THEN {}
       ELSE UNION {startLoop(o.s, {fd.FileName : fd \in {f \in AllFiles(o.s) : IsIndexFile(f.FileName)}})
                   : o \in {x \in ScanForQueries(loaded.s) : x.res = "ok"}}

\* the server is started on a content directory without the nested post
InitSave ==
    /\ \E d \in {x \in InitialDisks : ~x[PR].exists} : \E S \in StartServer(d) : Starts(S)
    /\ reqs = <<>>

DoSaveFileDetail ==
    /\ steps < MaxSaves
    /\ steps' = steps + 1
    /\ UNCHANGED <<reqs, arg, ret>>
    /\ \E c \in SaveCases : \E o \in SaveFileDetail(Later(St, c.dt0), c.fd, c.fault, c.dt) :
           Apply(o) /\ Record("SaveFileDetail", c.fd.FileName, o.res, o.trace, c.fault, c.fd)

NextSave == DoSaveFileDetail

SpecSave == InitSave /\ [][NextSave]_vars


(***************************************************************************)
(* SpecConc: the edit endpoint under concurrent requests.  The HTTP server *)
(* runs every request in a goroutine of its own and neither the handler    *)
(* nor SaveFileDetail takes a lock, so the steps of two saves interleave.  *)
(* reqs[r].pc is the step of SaveSteps that request r runs next (0: not    *)
(* received yet; Len(SaveSteps) + 1: returned).  Two steps that both use   *)
(* the maps of the store or of the Wire and run at the same time are a     *)
(* data race: the build gives either an interleaving of them or the        *)
(* runtime's fatal error, which ends the process.                          *)
(***************************************************************************)
Reqs == 1..MaxReqs

Returned == Len(SaveSteps) + 1
Down == Len(SaveSteps) + 2

\* the documents the concurrent requests save
ConcDocs ==
    {Doc(PR, FALSE, 6, <<TextLine(1)>>),
     Doc(PP, TRUE, 2, <<TextLine(1)>>),
     Doc(PIdx, FALSE, 0, <<StartLine(QRecent2), EndLine>>)}

\* the steps that read or write FileName, SlugFileMap or Wire.queries
UsesMaps(i) == i \in 3..Len(SaveSteps)

InitConc ==
    /\ \E d \in {InitialDisk(body, FALSE, FALSE, FALSE) : body \in IndexBodies} :
           \E S \in StartServer(d) : Starts(S)
    /\ reqs = [r \in Reqs |-> [pc |-> 0, fd |-> NoEntry]]

\* HandleEditPageData up to the call of SaveFileDetail: the document is built
\* from the request
Receive(r) ==
    /\ reqs[r].pc = 0
    /\ \E fd \in ConcDocs, dt \in {0, 1} :
           /\ reqs' = [reqs EXCEPT ![r] = [pc |-> 1, fd |-> fd]]
           /\ now' = now + dt
           /\ last' = [NoLast EXCEPT !.op = "Receive", !.path = fd.FileName]
    /\ UNCHANGED <<disk, FileName, SlugFileMap, queries, steps, arg, ret>>

\* request r runs its next step
RunStep(r) ==
    /\ reqs[r].pc \in 1..Len(SaveSteps)
    /\ \E o \in SaveStep(St, reqs[r].fd, reqs[r].pc, "") :
           /\ Apply(o)
           /\ reqs' = [reqs EXCEPT ![r].pc = IF o.res = "ok" THEN @ + 1 ELSE Returned]
           /\ last' = [NoLast EXCEPT !.op = SaveSteps[reqs[r].pc],
                                     !.path = reqs[r].fd.FileName, !.res = o.res]
    /\ UNCHANGED <<steps, arg, ret>>

\* two requests are both at a step that uses the maps: the runtime may detect
\* the concurrent map access and end the process
RaceFatal(r) ==
    /\ reqs[r].pc \in 1..Len(SaveSteps)
    /\ UsesMaps(reqs[r].pc)
    /\ \E r2 \in Reqs \ {r} : reqs[r2].pc \in 1..Len(SaveSteps) /\ UsesMaps(reqs[r2].pc)
    /\ reqs' = [x \in Reqs |-> [reqs[x] EXCEPT !.pc = Down]]
    /\ last' = [NoLast EXCEPT !.op = "fatal", !.path = reqs[r].fd.FileName, !.res = "panic"]
    /\ UNCHANGED <<disk, FileName, SlugFileMap, queries, now, steps, arg, ret>>

NextConc == \E r \in Reqs : Receive(r) \/ RunStep(r) \/ RaceFatal(r)

SpecConc == InitConc /\ [][NextConc]_vars


(***************************************************************************)
(* The pure functions, each applied to an input drawn from a bounded set.  *)
(* The store is empty and is not touched.                                  *)
(***************************************************************************)
Unused == Constructed([p \in Paths |-> NoFile])

InputIs(a) ==
    /\ StoreIs(Unused)
    /\ reqs = <<>>
    /\ arg = a
    /\ ret = NoRet

Returns(r) ==
    /\ ret = NoRet
    /\ ret' = r
    /\ UNCHANGED <<disk, FileName, SlugFileMap, queries, last, reqs, now, steps, arg>>

\* SpecGlob: matchesPathPattern on the patterns d/* and d/** for the
\* directories d and the file paths of up to MaxDepth components
DirNames == {<<"b">>, <<"s">>}
BaseNames == {<<"p">> \o MD, <<"q">> \o MD}

RECURSIVE DirsOfDepth(_)
DirsOfDepth(n) ==
    IF n = 1 THEN DirNames
    ELSE {d \o <<Slash>> \o c : d \in DirsOfDepth(n - 1), c \in DirNames}

GlobDirs == UNION {DirsOfDepth(n) : n \in 1..(MaxDepth - 1)}
GlobFiles == BaseNames \cup {d \o <<Slash>> \o b : d \in GlobDirs, b \in BaseNames}

InitGlob ==
    \E d \in GlobDirs, f \in GlobFiles :
        InputIs([f |-> "matchesPathPattern", dir |-> d, file |-> f])

DoMatchesPathPattern ==
    /\ arg.f = "matchesPathPattern"
    /\ Returns([done |-> TRUE,
                star |-> matchesPathPattern(arg.file, arg.dir \o <<Slash, Star>>),
                starstar |-> matchesPathPattern(arg.file, arg.dir \o <<Slash, Star, Star>>)])

NextGlob == DoMatchesPathPattern

SpecGlob == InitGlob /\ [][NextGlob]_vars

\* SpecSort: applySortToFiles on three documents with dates up to MaxDate (0:
\* no created value in the frontmatter), one of them also without the time
\* of the file, for the three time-based sorts and both orders
SortDoc(name, created, createdAt) ==
    [Doc(name, FALSE, created, <<TextLine(1)>>) EXCEPT !.CreatedAt = createdAt]

InitSort ==
    \E c1, c2, c3 \in 0..MaxDate, t \in {0, 1},
       sort \in {SortRecent, SortDate, SortModified}, order \in {SortAsc, SortDesc} :
        InputIs([f |-> "applySortToFiles",
                 files |-> {SortDoc(PP, c1, 1), SortDoc(PQ, c2, 1), SortDoc(PR, c3, t)},
                 query |-> [NilQuery EXCEPT !.Type = QueryPosts, !.Sort = sort,
                                            !.Order = order]])

DoApplySortToFiles ==
    /\ arg.f = "applySortToFiles"
    /\ \E out \in applySortToFiles(arg.files, arg.query) :
           Returns([done |-> TRUE, out |-> out])

NextSort == DoApplySortToFiles

SpecSort == InitSort /\ [][NextSort]_vars

\* SpecParse: ParseQuery on tags with the attributes given, absent or odd
InitParse ==
    \E type \in {"posts", "POSTS", "pages", "bogus"},
       sort \in {"", "title", "Title", "date", "modified", "RECENT"},
       order \in {"", "asc", "DESC"},
       limit \in {"", "5", "abc"},
       mdformat \in {"", "TABLE"} :
        InputIs([f |-> "ParseQuery",
                 x |-> [Tag(type, BStar, limit) EXCEPT !.sort = sort, !.order = order,
                                                       !.mdformat = mdformat]])

DoParseQuery ==
    /\ arg.f = "ParseQuery"
    /\ Returns([done |-> TRUE, err |-> ParseQuery(arg.x).err, ast |-> ParseQuery(arg.x).ast])

NextParse == DoParseQuery

SpecParse == InitParse /\ [][NextParse]_vars


(***************************************************************************)
(* Properties of NotifyFileChanged (checked under Spec)                    *)
(***************************************************************************)
\* the lines of a document that are not strictly inside one of its query
\* blocks, in order: the sentinel lines and everything outside the blocks
RECURSIVE frameFrom(_, _, _)
frameFrom(lines, qs, i) ==
    IF i > Len(lines) THEN <<>>
    ELSE (IF \E k \in 1..Len(qs) : qs[k].StartLine < i - 1 /\ i - 1 < qs[k].EndLine
          THEN <<>> ELSE <<lines[i]>>)
         \o frameFrom(lines, qs, i + 1)

Frame(p, lines) == frameFrom(lines, extractQueriesFromContent(p, lines), 1)

\* the last operation was a successful NotifyFileChanged of a document whose
\* recorded locations were those of a scan of its content at that moment
NotifiedFresh ==
    /\ last.op = "NotifyFileChanged"
    /\ last.res = "ok"
    /\ last.fresh
    /\ queries[last.path] # <<>>

\* C1: NotifyFileChanged on a freshly scanned document changes only the lines
\* strictly between the sentinels of its query blocks: the sentinel lines and
\* the lines outside the blocks are afterwards what they were, in the same order
C1_OnlyRegionsChange ==
    NotifiedFresh => Frame(last.path, disk[last.path].lines)
                         = Frame(last.path, last.pre[last.path])

\* C2: a second NotifyFileChanged right after a first one on a freshly scanned
\* document, nothing having changed in between, leaves the file as the first
\* call left it
C2_SecondNotifyIdentical ==
    (last.op = "NotifyFileChanged" /\ last.res = "ok" /\ last.second)
        => disk[last.path].lines = last.pre[last.path]


(***************************************************************************)
(* Properties of SaveFileDetail (checked under SpecSave)                   *)
(***************************************************************************)
SavedMarkdown == last.op = "SaveFileDetail" /\ last.fd.FileType = FileTypeMarkdown

\* no file other than the saved one has changed
OthersUntouched == \A p \in Files \ {last.path} : disk[p].lines = last.pre[p]

\* C3: SaveFileDetail runs serialize, write, refresh, rescan, notify, propagate
\* in this order, each step only after the earlier ones succeeded: the steps
\* that ran are an initial part of the sequence; a save that succeeded ran them
\* all; a failing step up to the notify makes it return an error with that
\* step the last one run, so nothing is written when the write fails, and a
\* failure after the write leaves the document as serialized and every other
\* file untouched; an empty file name is an error before any step
C3_StepsInOrder ==
    SavedMarkdown =>
        /\ \E n \in 0..Len(SaveSteps) : last.trace = SubSeq(SaveSteps, 1, n)
        /\ last.res = "ok" => last.trace = SaveSteps
        /\ last.fd.FileName = <<>> =>
               /\ last.res = "error" /\ last.trace = <<>>
               /\ \A p \in Files : disk[p].lines = last.pre[p]
        /\ \A i \in 1..4 :
               (last.fd.FileName # <<>> /\ last.fault = SaveSteps[i])
                   => last.res = "error" /\ last.trace = SubSeq(SaveSteps, 1, i)
        /\ (last.fd.FileName # <<>> /\ last.fault = "NotifyFileChanged"
               /\ queries[last.path] # <<>>)
               => last.res = "error" /\ Len(last.trace) = 5
        /\ (last.res = "error" /\ Len(last.trace) <= 2) =>
               \A p \in Files : disk[p].lines = last.pre[p]
        /\ (last.res = "error" /\ Len(last.trace) \in 3..5) =>
               /\ disk[last.path].lines = ToMarkdown(last.fd.ParsedContent)
               /\ OthersUntouched

\* a save whose refresh failed: the document is written, nothing later ran
C3_RefreshFailed ==
    /\ SavedMarkdown
    /\ last.fault = "RefreshContent"
    /\ last.res = "error"
    /\ last.trace = SubSeq(SaveSteps, 1, 3)
    /\ disk[last.path].lines # last.pre[last.path]


\* C4: after a successful save of a post, every index document on disk that
\* holds a posts query whose path pattern matches the post has that query's
\* region holding what the query gives on the store as the save left it (so
\* the post is listed, as far as limit, filters and access control allow)
C4_DependentsRematerialized ==
    (SavedMarkdown /\ last.res = "ok" /\ last.path \in Files /\ ~IsIndexMd(last.path))
        => \A ip \in Files :
               (IsIndexMd(ip) /\ disk[ip].exists /\ DoPath(St, ip).present)
                   => LET qs == extractQueriesFromContent(ip, disk[ip].lines)
                      IN \A k \in 1..Len(qs) :
                             (/\ qs[k].Query.Type = QueryPosts
                              /\ qs[k].Query.Path # <<>>
                              /\ matchesPathPattern(last.path, qs[k].Query.Path))
                                 => \E r \in executeQuery(St, DoPath(St, ip), qs[k].Query) :
                                        r.res = "ok" /\ r.lines = qs[k].Content


(***************************************************************************)
(* Properties of query execution (checked under Spec)                      *)
(***************************************************************************)
Min(a, b) == IF a < b THEN a ELSE b

\* the link target formatResults writes for a document
LinkOf(f) == <<Slash>> \o TrimPrefix(PageSlug(f), <<Slash>>)

\* the link targets of the result lines among the given lines
Listed(lines) ==
    {lines[i].slug : i \in {j \in 1..Len(lines) : lines[j].k \in {"item", "item-date"}}}

\* the region of the only query block of a document, as it is on disk
RegionOf(p) == extractQueriesFromContent(p, disk[p].lines)[1].Content

\* the candidates of a posts query: the non-index documents its path filter accepts
Matching(q) ==
    {f \in AllFiles(St) :
        /\ IsContent(f)
        /\ ~IsIndexMd(f.FileName)
        /\ (q.Path # <<>> => matchesPathPattern(f.FileName, q.Path))}

\* the candidates access control lets the requesting document see
Admitted(ctx, q) ==
    {f \in Matching(q) : PageIsPrivate(ctx) \/ ~PageIsPrivate(f) \/ q.IncludePrivate}

\* the last operation materialized the only query block of a freshly scanned document
NotifiedOne ==
    /\ NotifiedFresh
    /\ Len(queries[last.path]) = 1
    /\ queries[last.path][1].Query.Type = QueryPosts
    /\ Len(extractQueriesFromContent(last.path, disk[last.path].lines)) = 1

\* C5: a private requesting document sees every candidate, a public one sees
\* a private candidate only when the query sets include-private: the region of
\* the block lists as many documents as the limit lets through of those, and
\* a public document without include-private has no line, anywhere in the
\* file, that links to a document marked private
C5_AccessControl ==
    /\ NotifiedOne =>
           LET ctx == DoPath(St, last.path)
               q == queries[last.path][1].Query
               n == IF PageIsPrivate(ctx) \/ q.IncludePrivate
                    THEN Cardinality(Matching(q))
                    ELSE Cardinality({f \in Matching(q) : ~PageIsPrivate(f)})
           IN /\ Cardinality(Listed(RegionOf(last.path)))
                     = (IF q.Limit > 0 THEN Min(q.Limit, n) ELSE n)
              /\ (~PageIsPrivate(ctx) /\ ~q.IncludePrivate)
                     => \A f \in Matching(q) :
                            PageIsPrivate(f) => LinkOf(f) \notin Listed(RegionOf(last.path))
    /\ (last.op = "NotifyFileChanged" /\ last.res = "ok"
           /\ ~PageIsPrivate(DoPath(St, last.path))
           /\ \A k \in 1..Len(queries[last.path]) : ~queries[last.path][k].Query.IncludePrivate)
           => \A f \in AllFiles(St) :
                  PageIsPrivate(f) => LinkOf(f) \notin Listed(disk[last.path].lines)

\* a public document was materialized while a private candidate existed, and
\* its region lists the public candidates only
C5_PrivateLeftOut ==
    /\ NotifiedOne
    /\ ~PageIsPrivate(DoPath(St, last.path))
    /\ ~queries[last.path][1].Query.IncludePrivate
    /\ \E f \in Matching(queries[last.path][1].Query) : PageIsPrivate(f)
    /\ Listed(RegionOf(last.path)) # {}

\* the region holds Min(L, n) list-with-date lines for the n given documents:
\* the newest ones, newest first
NewestFirst(region, docs, L) ==
    /\ Len(region) = Min(L, Cardinality(docs))
    /\ \A i \in 1..Len(region) : region[i].k = "item-date"
    /\ \E order \in [1..Len(region) -> docs] :
           /\ \A i, j \in 1..Len(region) : i # j => order[i] # order[j]
           /\ \A i \in 1..Len(region) :
                  /\ region[i].slug = LinkOf(order[i])
                  /\ region[i].date = FormatDate(DateCreated(order[i]))
           /\ \A i, j \in 1..Len(region) :
                  i < j => DateCreated(order[i]) >= DateCreated(order[j])
           /\ \A f \in docs : (\A i \in 1..Len(region) : order[i] # f)
                  => \A i \in 1..Len(region) : DateCreated(f) <= DateCreated(order[i])

\* the block is a posts query with a path pattern, sort=recent and a limit
NotifiedRecentLimited ==
    /\ NotifiedOne
    /\ queries[last.path][1].Query.Path # <<>>
    /\ queries[last.path][1].Query.Sort = SortRecent
    /\ queries[last.path][1].Query.Order = SortDesc
    /\ queries[last.path][1].Query.Limit > 0
    /\ queries[last.path][1].Query.Filters = <<>>
    /\ queries[last.path][1].Query.MDFormat = FormatListWithDate

InSave(r) == reqs[r].pc \in 3..Len(SaveSteps)

\* C6: the saves of two requests do not interleave: while one request is
\* between the write of its document and the end of its save, no other is
C6_SavesSerialized ==
    \A r1, r2 \in Reqs : (r1 # r2 /\ InSave(r1)) => ~InSave(r2)


(***************************************************************************)
(* Properties of the pure functions                                        *)
(***************************************************************************)
\* C8: the pattern d/* matches a file exactly when the file lies directly in
\* d, and the pattern d/** matches every file below d at any depth
C8_StarDirectChildren ==
    (ret.done /\ arg.f = "matchesPathPattern") =>
        /\ ret.star <=> (Dir(arg.file) = arg.dir)
        /\ HasPrefix(arg.file, arg.dir \o <<Slash>>) => ret.starstar

\* C9: a time-based sort puts every document without a resolvable date after
\* every document that has one, for both orders
C9_UndatedLast ==
    (ret.done /\ arg.f = "applySortToFiles") =>
        /\ Len(ret.out) = Cardinality(arg.files)
        /\ \A i, j \in 1..Len(ret.out) :
               (i < j /\ DateCreated(ret.out[i]) = 0) => DateCreated(ret.out[j]) = 0

\* an ascending sort of dated and undated documents has returned
C9_AscendingMixed ==
    /\ ret.done /\ arg.f = "applySortToFiles"
    /\ arg.query.Order = SortAsc
    /\ DateCreated(ret.out[1]) # 0
    /\ DateCreated(ret.out[Len(ret.out)]) = 0

\* C10: an absent sort is recent; an absent order is desc for the time-based
\* sorts and asc for the others; an absent md-format is list-with-date; an
\* absent or non-numeric limit is 0; an attribute that is given is kept
C10_Defaults ==
    (ret.done /\ arg.f = "ParseQuery" /\ ~ret.err) =>
        /\ ret.ast.Sort = (IF arg.x.sort = "" THEN SortRecent ELSE ToLower(arg.x.sort))
        /\ ret.ast.Order =
               (IF arg.x.order # "" THEN ToLower(arg.x.order)
                ELSE IF ret.ast.Sort \in {SortRecent, SortDate, SortModified}
                THEN SortDesc ELSE SortAsc)
        /\ ret.ast.MDFormat =
               (IF arg.x.mdformat = "" THEN FormatListWithDate ELSE ToLower(arg.x.mdformat))
        /\ ret.ast.Limit =
               (IF arg.x.limit # "" /\ Atoi(arg.x.limit).ok THEN Atoi(arg.x.limit).val ELSE 0)

\* <query type="posts"> with nothing else but a path and a non-numeric limit
\* has been parsed to the defaults
C10_AllDefaults ==
    /\ ret.done /\ arg.f = "ParseQuery" /\ ~ret.err
    /\ arg.x.type = "posts" /\ arg.x.sort = "" /\ arg.x.order = "" /\ arg.x.mdformat = ""
    /\ arg.x.limit = "abc"
    /\ ret.ast.Sort = SortRecent /\ ret.ast.Order = SortDesc
    /\ ret.ast.MDFormat = FormatListWithDate /\ ret.ast.Limit = 0

(***************************************************************************)
(* The markdown text of a document (markdown parser).  A text is a         *)
(* sequence of lines: "fmblock" the frontmatter block with its "key:       *)
(* value" items in the order written, "h1" a level-1 ATX heading, "blank"  *)
(* an empty line, "text" a paragraph line with the hashtags it holds.  A   *)
(* body is never the empty sequence: the empty string is one blank line.   *)
(***************************************************************************)
LinesToSearch == 5

FmBlock(items) == [k |-> "fmblock", items |-> items]
H1(t) == [k |-> "h1", t |-> t]
Blank == [k |-> "blank"]
Para(tags) == [k |-> "text", tags |-> tags]

\* yaml.Marshal of a map writes the keys in sorted order
SortedKeys == <<"draft", "title">>

RECURSIVE marshalFrom(_, _)
marshalFrom(data, i) ==
    IF i > Len(SortedKeys) THEN <<>>
    ELSE (IF SortedKeys[i] \in DOMAIN data
          THEN <<[key |-> SortedKeys[i], val |-> data[SortedKeys[i]]]>> ELSE <<>>)
         \o marshalFrom(data, i + 1)

\* FrontmatterData.Marshal for the YAML type: "---\n" items "---"
MarshalYAML(data) == FmBlock(marshalFrom(data, 1))

\* yaml.Unmarshal into the Data map: a later item of the same key wins
Unmarshal(items) ==
    [key \in {items[i].key : i \in DOMAIN items} |->
        items[CHOOSE i \in DOMAIN items :
                 /\ items[i].key = key
                 /\ \A j \in DOMAIN items : items[j].key = key => j <= i].val]

\* the closing `---\s*\n` of the frontmatter pattern takes every leading
\* blank line that a newline follows
RECURSIVE SkipBlank(_)
SkipBlank(lines) ==
    IF Len(lines) > 1 /\ lines[1].k = "blank" THEN SkipBlank(Tail(lines)) ELSE lines

\* MarkdownParser.ExtractFrontmatter: nil frontmatter when the text does not
\* begin with a block that a newline follows
ExtractFrontmatter(text) ==
    IF Len(text) > 1 /\ text[1].k = "fmblock"
    THEN [nil |-> FALSE, Data |-> Unmarshal(text[1].items), body |-> SkipBlank(Tail(text))]
    ELSE [nil |-> TRUE, Data |-> <<>>, body |-> text]

\* ExtractHeadings, the level-1 headings only: their texts in document order
RECURSIVE ExtractHeadings(_)
ExtractHeadings(lines) ==
    IF lines = <<>> THEN <<>>
    ELSE (IF lines[1].k = "h1" THEN <<lines[1].t>> ELSE <<>>) \o ExtractHeadings(Tail(lines))

\* RemoveFirstH1(markdown, linesToSearch): the first line among the first
\* linesToSearch that matches `^#\s` is dropped; the blank lines after it stay
\* (the i++ of the inner loop does not move the range loop)
RemoveFirstH1(lines, linesToSearch) ==
    LET hits == {i \in DOMAIN lines : i <= linesToSearch /\ lines[i].k = "h1"}
    IN  IF hits = {} THEN [body |-> lines, h1Removed |-> FALSE]
        ELSE LET i == CHOOSE x \in hits : \A y \in hits : x <= y
                 rest == SubSeq(lines, 1, i - 1) \o SubSeq(lines, i + 1, Len(lines))
             IN  [body |-> IF rest = <<>> THEN <<Blank>> ELSE rest, h1Removed |-> TRUE]

RECURSIVE hashtagsOf(_)
hashtagsOf(lines) ==
    IF lines = <<>> THEN <<>>
    ELSE (IF lines[1].k = "text" THEN lines[1].tags ELSE <<>>) \o hashtagsOf(Tail(lines))

\* MarkdownParser.Parse on a text: frontmatter, headings, first H1 taken off
\* the body, title from that H1 or else from the frontmatter, hashtags of
\* the body that is left
ParseText(text) ==
    LET fm == ExtractFrontmatter(text)
        Headings == ExtractHeadings(fm.body)
        rm == RemoveFirstH1(fm.body, LinesToSearch)
        fromH1 == IF rm.h1Removed /\ Headings # <<>> THEN Headings[1] ELSE ""
        Title == IF fromH1 # "" THEN fromH1
                 ELSE IF ~fm.nil /\ "title" \in DOMAIN fm.Data THEN fm.Data["title"]
                 ELSE ""
    IN  [FmNil |-> fm.nil, Data |-> fm.Data, Body |-> rm.body, Headings |-> Headings,
         Title |-> Title, Hashtags |-> hashtagsOf(rm.body)]

\* ParsedContent.ToMarkdown on a text: the parts joined by "\n"
ToMarkdownText(pc) ==
    (IF pc.FmNil THEN <<>> ELSE <<MarshalYAML(pc.Data)>>)
    \o (IF pc.Title # "" THEN <<H1(pc.Title)>>
        ELSE IF pc.Headings # <<>> THEN <<H1(pc.Headings[1])>>
        ELSE <<>>)
    \o pc.Body

\* SpecRound: Parse, ToMarkdown and Parse again, on documents with
\* frontmatter and a body of up to MaxBody lines
MaxBody == 6
BodyLines == {H1("A"), Blank, Para(<<>>), Para(<<"x">>)}
Titles == {"A", "B"}

RECURSIVE BodiesOf(_)
BodiesOf(n) ==
    IF n = 0 THEN {<<>>}
    ELSE {<<l>> \o b : l \in BodyLines, b \in BodiesOf(n - 1)}

Bodies == UNION {BodiesOf(n) : n \in {1, 2, MaxBody}}

FmItems ==
    {<<[key |-> "draft", val |-> "B"]>>}
    \cup {<<[key |-> "title", val |-> t]>> : t \in Titles}
    \cup {<<[key |-> "title", val |-> "B"], [key |-> "draft", val |-> "A"]>>}

RoundDocs == {<<FmBlock(f)>> \o b : f \in FmItems, b \in Bodies}

InitRound == \E d \in RoundDocs : InputIs([f |-> "RoundTrip", D |-> d])

DoRoundTrip ==
    /\ arg.f = "RoundTrip"
    /\ LET first == ParseText(arg.D)
           md == ToMarkdownText(first)
       IN  Returns([done |-> TRUE, first |-> first, md |-> md, second |-> ParseText(md)])

NextRound == DoRoundTrip

SpecRound == InitRound /\ [][NextRound]_vars

SetOf(seq) == {seq[i] : i \in DOMAIN seq}

\* C11: for every document with frontmatter, parsing it, serializing the
\* result with ToMarkdown and parsing that output again gives the same
\* title, the same hashtag set, the same frontmatter keys and values and
\* the same body as the first parse
C11_RoundTrip ==
    (ret.done /\ arg.f = "RoundTrip") =>
        /\ ret.second.Title = ret.first.Title
        /\ SetOf(ret.second.Hashtags) = SetOf(ret.first.Hashtags)
        /\ ret.second.Data = ret.first.Data
        /\ ret.second.Body = ret.first.Body

(***************************************************************************)
(* FrontmatterData (frontmatter codec).  Data is the ordered list of       *)
(* items that Marshal serializes, DataKV the map that SetValue and the     *)
(* callers mutate.  An operation maps the object fm to the set of its      *)
(* outcomes [fm, panic].                                                   *)
(***************************************************************************)
FmKeys == {"a", "b", "c", "d"}
FmValues == {1, 2}

MapItem(key, val) == [Key |-> key, Value |-> val]

\* the map m without the key k: delete(m, k)
Without(m, k) == [x \in (DOMAIN m) \ {k} |-> m[x]]
\* the map m with m[k] = v
With(m, k, v) == [x \in (DOMAIN m) \cup {k} |-> IF x = k THEN v ELSE m[x]]

\* FrontmatterData.SetValue: a key that DataKV does not hold is appended to Data
SetValue(fm, key, value) ==
    [fm EXCEPT !.Data = IF key \in DOMAIN fm.DataKV THEN @ ELSE Append(@, MapItem(key, value)),
               !.DataKV = With(@, key, value)]

\* delete(fm.DataKV, key), the deletion of a key from the map
DeleteKey(fm, key) == [fm EXCEPT !.DataKV = Without(@, key)]

\* the first loop of Marshal: `for i, item := range fm.Data` walks the n
\* elements of the array the slice had at the start (back), while the body
\* indexes and re-slices the current fm.Data of length L, which a removal
\* shortens by shifting the array left
RECURSIVE syncLoop(_, _, _, _, _)
syncLoop(back, L, KV, i, updatedKeys) ==
    IF i > Len(back) THEN [panic |-> FALSE, Data |-> SubSeq(back, 1, L), updatedKeys |-> updatedKeys]
    ELSE IF i > L THEN [panic |-> TRUE, Data |-> SubSeq(back, 1, L), updatedKeys |-> updatedKeys]
    ELSE IF back[i].Key \in DOMAIN KV
         THEN syncLoop([back EXCEPT ![i].Value = KV[back[i].Key]], L, KV, i + 1,
                       updatedKeys \cup {back[i].Key})
    ELSE syncLoop([j \in DOMAIN back |-> IF j >= i /\ j < L THEN back[j + 1] ELSE back[j]],
                  L - 1, KV, i + 1, updatedKeys)

\* every order in which `for key, val := range fm.DataKV` can visit the keys
KeyOrders(keys) ==
    {o \in [1..Cardinality(keys) -> keys] : \A i, j \in DOMAIN o : i # j => o[i] # o[j]}

\* FrontmatterData.Marshal: Data synced from DataKV, then the keys of DataKV
\* that the first loop did not update appended in map order; out is the
\* item list that yaml.Marshal writes between the `---` lines
Marshal(fm) ==
    LET sync == syncLoop(fm.Data, Len(fm.Data), fm.DataKV, 1, {})
    IN  IF sync.panic THEN {[fm |-> [fm EXCEPT !.Data = sync.Data], panic |-> TRUE, out |-> <<>>]}
        ELSE {LET Data == sync.Data \o [i \in DOMAIN o |-> MapItem(o[i], fm.DataKV[o[i]])]
              IN  [fm |-> [fm EXCEPT !.Data = Data], panic |-> FALSE, out |-> Data]
              : o \in KeyOrders((DOMAIN fm.DataKV) \ sync.updatedKeys)}

\* SpecFm: a frontmatter object built with SetValue, then up to MaxMutations
\* mutations with Marshal calls in between
MaxMutations == 2
MaxKeys == 3

RECURSIVE Built(_)
Built(n) ==
    IF n = 0 THEN {[Data |-> <<>>, DataKV |-> <<>>]}
    ELSE Built(n - 1)
         \cup {SetValue(fm, k, 1) : fm \in {x \in Built(n - 1) : Len(x.Data) = n - 1},
                                    k \in FmKeys}

KeysOf(items) == [i \in DOMAIN items |-> items[i].Key]

InitFm ==
    \E fm \in Built(MaxKeys) :
        /\ StoreIs(Unused)
        /\ reqs = <<>>
        /\ arg = [f |-> "Frontmatter", fm |-> fm, since |-> <<>>, n |-> 0, dead |-> FALSE]
        /\ ret = [done |-> FALSE, panic |-> FALSE, out |-> <<>>, prev |-> KeysOf(fm.Data),
                  since |-> <<>>]

\* one mutation of the object: it counts towards MaxMutations
Mutated(fm, m) == [arg EXCEPT !.fm = fm, !.since = Append(@, m), !.n = @ + 1]

DoSetValue ==
    /\ arg.f = "Frontmatter" /\ ~arg.dead /\ arg.n < MaxMutations
    /\ \E k \in FmKeys, v \in FmValues :
        arg' = Mutated(SetValue(arg.fm, k, v), [op |-> "set", key |-> k, value |-> v])
    /\ UNCHANGED <<disk, FileName, SlugFileMap, queries, last, reqs, now, steps, ret>>

DoDeleteKey ==
    /\ arg.f = "Frontmatter" /\ ~arg.dead /\ arg.n < MaxMutations
    /\ \E k \in DOMAIN arg.fm.DataKV :
        arg' = Mutated(DeleteKey(arg.fm, k), [op |-> "delete", key |-> k])
    /\ UNCHANGED <<disk, FileName, SlugFileMap, queries, last, reqs, now, steps, ret>>

DoMarshal ==
    /\ arg.f = "Frontmatter" /\ ~arg.dead
    /\ \E o \in Marshal(arg.fm) :
        /\ arg' = [arg EXCEPT !.fm = o.fm, !.since = <<>>, !.dead = o.panic]
        /\ ret' = [done |-> TRUE, panic |-> o.panic, out |-> o.out,
                   prev |-> IF ret.done THEN KeysOf(ret.out) ELSE ret.prev,
                   since |-> arg.since]
    /\ UNCHANGED <<disk, FileName, SlugFileMap, queries, last, reqs, now, steps>>

NextFm == DoSetValue \/ DoDeleteKey \/ DoMarshal

SpecFm == InitFm /\ [][NextFm]_vars

InSeq(seq, x) == \E i \in DOMAIN seq : seq[i] = x

\* the key order the claim states after one mutation of the keys prev
KeysAfter(prev, m) ==
    IF m.op = "delete" THEN SelectSeq(prev, LAMBDA k : k # m.key)
    ELSE IF InSeq(prev, m.key) THEN prev
    ELSE Append(prev, m.key)

\* C12: when one mutation (a set of an existing key, an addition of a new
\* key, a deletion of a key from the map) is followed by Marshal, the
\* serialized keys are the earlier keys that were not deleted, in their
\* earlier order, followed by the newly added key
C12_OrderPreserved ==
    (arg.f = "Frontmatter" /\ ret.done /\ Len(ret.since) = 1) =>
        /\ ~ret.panic
        /\ KeysOf(ret.out) = KeysAfter(ret.prev, ret.since[1])

\* the last operation was RefreshContent of a .md/.html file that was indexed
\* with the modification time the file had on disk
RefreshedUnmodified ==
    /\ last.op = "RefreshContent"
    /\ last.path \in Files
    /\ last.idx.FileName[last.path].present
    /\ disk[last.path].exists
    /\ last.idx.FileName[last.path].ModifiedAt = disk[last.path].mtime

\* C13: RefreshContent of an indexed .md/.html file whose modification time
\* on disk equals the indexed ModifiedAt returns without error and leaves the
\* path index and the slug index exactly as they were; and after any
\* RefreshContent of a file, a second RefreshContent of it changes nothing
C13_RefreshSkipsUnmodified ==
    /\ RefreshedUnmodified =>
           /\ last.res = "ok"
           /\ FileName = last.idx.FileName
           /\ SlugFileMap = last.idx.SlugFileMap
    /\ (last.op = "RefreshContent" /\ last.path \in Files) =>
           RefreshContent(St, last.path).s = St

\* RefreshContent of an unmodified indexed document that has parsed content
C13_Skipped ==
    /\ RefreshedUnmodified
    /\ ~FileName[last.path].ParsedContent.nil
    /\ FileName[last.path].FileType = FileTypeMarkdown

\* C14: when NotifyFileChanged runs on a freshly scanned document and the
\* query of one of its locations cannot be executed, every other location of
\* the document is still re-materialized: its region on disk is a result of
\* its query
C14_FailurePerLocation ==
    (/\ last.op = "NotifyFileChanged"
     /\ last.fresh
     /\ \E k \in DOMAIN queries[last.path] : queries[last.path][k].Query.Type # QueryPosts) =>
        LET blocks == extractQueriesFromContent(last.path, disk[last.path].lines)
        IN  /\ Len(blocks) = Len(queries[last.path])
            /\ \A k \in DOMAIN queries[last.path] :
                   queries[last.path][k].Query.Type = QueryPosts =>
                       \E r \in executeQuery(St, DoPath(St, last.path),
                                             queries[last.path][k].Query) :
                           r.lines = blocks[k].Content

\* the last operation was a save of a markdown document in which the I/O of
\* the named step failed: the step was reached and had I/O to do
SaveIOFailed ==
    /\ last.op = "SaveFileDetail"
    /\ last.fd.FileName # <<>>
    /\ last.fd.FileType = FileTypeMarkdown
    /\ \/ last.fault \in {"WriteContentFile", "RefreshContent",
                          "ScanContentFileForQueries", "RefreshContentDir",
                          "RefreshContentFile"}
       \/ last.fault = "NotifyFileChanged" /\ queries[last.path] # <<>>
       \/ /\ last.fault = "FindDependencies"
          /\ \E ip \in FindDependencies(St, last.path) : disk[ip].exists

\* C15: an I/O error in any step of SaveFileDetail, the refresh and rescan of
\* the dependent index pages included, is returned to the caller: the save
\* does not return success
C15_IOErrorsReturned == SaveIOFailed => last.res # "ok"

(***************************************************************************)
(* SpecDelete: the loaded content store while files are deleted from the   *)
(* content directory (by the sync or by hand) and the directory or a       *)
(* single path is scanned again.                                           *)
(***************************************************************************)
\* a file of the content directory is removed
DoDeleteFile ==
    /\ Step
    /\ \E p \in {f \in Files : disk[f].exists} :
           /\ disk' = [disk EXCEPT ![p] = NoFile]
           /\ UNCHANGED <<FileName, SlugFileMap, queries, now>>
           /\ Record("DeleteFile", p, "ok", <<>>, "", NoEntry)

NextDelete == DoDeleteFile \/ DoLoadContent \/ DoRefreshContent

SpecDelete == Init /\ [][NextDelete]_vars

\* C16: after the file of path p is deleted and LoadContent or
\* RefreshContent(p) has run, p is not in the path index, no entry of the
\* slug index is the document of p, and DoPath(p) reports not-found
C16_DeletedForgotten ==
    \A p \in Files :
        (/\ ~disk[p].exists
         /\ \/ last.op = "LoadContent"
            \/ last.op = "RefreshContent" /\ last.path = p) =>
            /\ ~FileName[p].present
            /\ \A slug \in Slugs : SlugFileMap[slug].FileName # p
            /\ ~DoPath(St, p).present

(***************************************************************************)
(* SpecRescan: the store is loaded and scanned for queries; documents are  *)
(* then edited in the content directory and scanned again.                 *)
(***************************************************************************)
InitScanned ==
    /\ \E d \in InitialDisks :
           \E o \in {x \in ScanForQueries(LoadContent(Constructed(d)).s) : x.res = "ok"} :
               Starts(o.s)
    /\ reqs = <<>>

\* the bodies a document is given by an edit: no query block, one block
EditBodies == {<<TextLine(1)>>, <<TextLine(1), StartLine(QRecent1), EndLine>>}

\* a file of the content directory is rewritten
DoEditFile ==
    /\ Step
    /\ \E p \in {f \in Files : disk[f].exists}, body \in EditBodies :
           /\ disk' = [disk EXCEPT ![p] = FileOnDisk(<<FmLine(FALSE, 0)>> \o body, now + 1)]
           /\ now' = now + 1
           /\ UNCHANGED <<FileName, SlugFileMap, queries>>
           /\ Record("EditFile", p, "ok", <<>>, "", NoEntry)

NextRescan == DoEditFile \/ DoScanForQueries \/ DoScanContentFileForQueries

SpecRescan == InitScanned /\ [][NextRescan]_vars

\* C17: after ScanForQueries or ScanContentFileForQueries has completed, the
\* locations recorded for each scanned document are exactly the well-formed
\* query blocks of its content on disk: none of an earlier scan is kept, and
\* a document without a query block has none
C17_LocationsReplaced ==
    /\ (last.op = "ScanForQueries" /\ last.res = "ok") =>
           \A f \in AllFiles(St) :
               IsContent(f) =>
                   queries[f.FileName] = extractQueriesFromContent(f.FileName,
                                                                   disk[f.FileName].lines)
    /\ (/\ last.op = "ScanContentFileForQueries"
        /\ last.res = "ok"
        /\ IsContent(DoPath(St, last.path))) =>
           queries[last.path] = extractQueriesFromContent(last.path, disk[last.path].lines)

\* C18: after SaveFileDetail has returned successfully for a markdown
\* document, the parsed content indexed for the document is the parse of the
\* content the file has on disk, the query regions that NotifyFileChanged
\* rewrote during the save included
C18_IndexMatchesDisk ==
    (/\ last.op = "SaveFileDetail"
     /\ last.res = "ok"
     /\ last.fd.FileName # <<>>
     /\ last.fd.FileType = FileTypeMarkdown) =>
        /\ FileName[last.path].present
        /\ FileName[last.path].ParsedContent = Parse(disk[last.path].lines).pc

\* C19: after the start-up sequence and after every completed SaveFileDetail,
\* each location recorded for a document has the line numbers of its block's
\* start and end sentinel in the content the document has on disk
C19_LocationsAtSentinels ==
    (last.op = "none" \/ (last.op = "SaveFileDetail" /\ last.res = "ok")) =>
        \A p \in {f \in Files : disk[f].exists} :
            LET blocks == extractQueriesFromContent(p, disk[p].lines)
            IN  /\ Len(queries[p]) = Len(blocks)
                /\ \A k \in DOMAIN queries[p] :
                       /\ queries[p][k].StartLine = blocks[k].StartLine
                       /\ queries[p][k].EndLine = blocks[k].EndLine

(***************************************************************************)
(* SpecScan: the store is loaded on a content directory whose index        *)
(* document holds query blocks that ParseQuery rejects among blocks it     *)
(* accepts; the Wire, constructed empty, scans.                            *)
(***************************************************************************)
QNoType == Tag("", BStar, "")
QMalformed == [QRecent2 EXCEPT !.wellFormed = FALSE]
QWhereShort == [QAll EXCEPT !.where = <<"tag", "contains">>]
QWhere == [QAll EXCEPT !.where = <<"tag", "contains", "x">>]

ScanBodies ==
    {<<StartLine(QRecent1), EndLine, StartLine(QBogus), EndLine, StartLine(QAll), EndLine>>,
     <<StartLine(QNoType), TextLine(1), EndLine, StartLine(QRecent2), EndLine>>,
     <<StartLine(QRecent2), EndLine, TextLine(1), StartLine(QMalformed), EndLine>>,
     <<StartLine(QWhereShort), EndLine>>,
     <<TextLine(1), StartLine(QWhereShort), EndLine, StartLine(QWhere), TextLine(8), EndLine>>}

InitLoaded ==
    /\ \E body \in ScanBodies, idxPrivate \in BOOLEAN, pPrivate \in BOOLEAN, nested \in BOOLEAN :
           Starts(LoadContent(Constructed(InitialDisk(body, idxPrivate, pPrivate, nested))).s)
    /\ reqs = <<>>

NextScan == DoScanForQueries \/ DoScanContentFileForQueries

SpecScan == InitLoaded /\ [][NextScan]_vars

\* the blocks of a document: a start sentinel, an end sentinel and no
\* sentinel between them, as pairs of line numbers counted from 0
BlocksOf(lines) ==
    {b \in (0..(Len(lines) - 1)) \X (0..(Len(lines) - 1)) :
        /\ b[1] < b[2]
        /\ lines[b[1] + 1].k = "start"
        /\ lines[b[2] + 1].k = "end"
        /\ \A j \in (b[1] + 2)..b[2] : lines[j].k \notin {"start", "end"}}

\* a document was scanned: it is an indexed content file on disk and the last
\* operation was a scan that covers it
Scanned(p) ==
    /\ disk[p].exists
    /\ FileName[p].present
    /\ IsContent(FileName[p])
    /\ \/ last.op = "ScanForQueries"
       \/ last.op = "ScanContentFileForQueries" /\ last.path = p

\* C20: a scan returns no error when a block's query text fails ParseQuery;
\* it records no location for that block and records every block that
\* parses, those before and after the failing one included, with the
\* parsed query and the lines of the block's sentinels
C20_BadBlockSkipped ==
    \A p \in Files :
        Scanned(p) =>
            LET lines == disk[p].lines
                good == {b \in BlocksOf(lines) : ~ParseQuery(lines[b[1] + 1].q).err}
            IN  /\ last.res = "ok"
                /\ Len(queries[p]) = Cardinality(good)
                /\ {<<queries[p][k].StartLine, queries[p][k].EndLine>>
                        : k \in DOMAIN queries[p]} = good
                /\ \A k \in DOMAIN queries[p] :
                       queries[p][k].Query = ParseQuery(lines[queries[p][k].StartLine + 1].q).ast

\* the index document was scanned: it holds a block that fails ParseQuery
\* between two blocks that were recorded
C20_SkippedBetween ==
    /\ Scanned(PIdx)
    /\ last.res = "ok"
    /\ Len(queries[PIdx]) = 2
    /\ \E b \in BlocksOf(disk[PIdx].lines) :
           /\ ParseQuery(disk[PIdx].lines[b[1] + 1].q).err
           /\ queries[PIdx][1].EndLine < b[1]
           /\ b[2] < queries[PIdx][2].StartLine

(***************************************************************************)
(* SpecExtract: extractQueriesFromContent on every content of up to        *)
(* MaxLines lines, each a start sentinel (of a query that parses or of one *)
(* that does not), an end sentinel or a text line.                         *)
(***************************************************************************)
MaxLines == 6
ExtractLines == {StartLine(QRecent1), StartLine(QBogus), EndLine, TextLine(1)}

RECURSIVE ContentsOf(_)
ContentsOf(n) ==
    IF n = 0 THEN {<<>>}
    ELSE ContentsOf(n - 1)
         \cup {Append(c, l) : c \in {x \in ContentsOf(n - 1) : Len(x) = n - 1},
                              l \in ExtractLines}

InitExtract ==
    \E c \in ContentsOf(MaxLines) : InputIs([f |-> "extractQueriesFromContent", C |-> c])

DoExtractQueriesFromContent ==
    /\ arg.f = "extractQueriesFromContent"
    /\ Returns([done |-> TRUE, qs |-> extractQueriesFromContent(PIdx, arg.C)])

NextExtract == DoExtractQueriesFromContent

SpecExtract == InitExtract /\ [][NextExtract]_vars

\* C21: every location of a scan of content C has StartLine < EndLine, a
\* start sentinel at line StartLine and an end sentinel at line EndLine, and
\* as Content exactly the lines of C strictly between them; the locations
\* are in ascending order with disjoint line ranges; and a start sentinel
\* that no end sentinel follows yields no location
C21_LocationsWellFormed ==
    (ret.done /\ arg.f = "extractQueriesFromContent") =>
        /\ \A k \in DOMAIN ret.qs :
               LET q == ret.qs[k]
               IN  /\ q.StartLine < q.EndLine
                   /\ q.EndLine < Len(arg.C)
                   /\ arg.C[q.StartLine + 1].k = "start"
                   /\ arg.C[q.EndLine + 1].k = "end"
                   /\ q.Content = SubSeq(arg.C, q.StartLine + 2, q.EndLine)
        /\ \A k \in DOMAIN ret.qs :
               k > 1 => ret.qs[k - 1].EndLine < ret.qs[k].StartLine
        /\ \A i \in DOMAIN arg.C :
               (/\ arg.C[i].k = "start"
                /\ \A j \in (i + 1)..Len(arg.C) : arg.C[j].k # "end") =>
                   \A k \in DOMAIN ret.qs : ret.qs[k].StartLine # i - 1

\* a content with two blocks, the second holding a line, and a start
\* sentinel after them that is never closed
C21_TwoBlocksAndOpenStart ==
    /\ ret.done /\ arg.f = "extractQueriesFromContent"
    /\ Len(ret.qs) = 2
    /\ ret.qs[2].Content # <<>>
    /\ arg.C[Len(arg.C)].k = "start"

(***************************************************************************)
(* NotifyFileChanged and panics                                            *)
(***************************************************************************)
\* SpecNotify: the documents are edited on disk after the scan and the Wire is
\* notified without a rescan in between
NextNotify == DoEditFile \/ DoNotifyFileChanged

SpecNotify == InitScanned /\ [][NextNotify]_vars

\* C22: NotifyFileChanged never panics: whatever the recorded locations, the
\* content of the owning file on disk and the result documents are, it
\* completes or returns an error
C22_NotifyNeverPanics ==
    last.op = "NotifyFileChanged" => last.res \in {"ok", "error"}

(***************************************************************************)
(* SpecPosts: the candidates of a posts query.  The condition of the first *)
(* loop of executePostsQuery is applied to a markdown or HTML document of  *)
(* any of the names below and a query with any of the path patterns.       *)
(***************************************************************************)
Index == <<"i", "n", "d", "e", "x">>
PostBases == {Index \o MD, Index \o HTML, <<"m", "y">> \o Index \o MD,
              <<"p">> \o MD, <<"p">> \o HTML}
PostDirs == {<<>>, DirB \o <<Slash>>, DirS \o <<Slash>>}
PostNames == {d \o b : d \in PostDirs, b \in PostBases}
PostPaths == {<<>>, <<Star>>, DirB \o <<Slash, Star>>, DirS \o <<Slash, Star>>}

\* the entry scanContentPath makes for a markdown or HTML file of this name
PostFile(name) ==
    [present |-> TRUE, FileName |-> name,
     FileType |-> IF Ext(name) = MD THEN FileTypeMarkdown ELSE FileTypeHTML,
     ModifiedAt |-> 1, CreatedAt |-> 1, ParsedContent |-> NilParsedContent]

InitPosts ==
    \E n \in PostNames, p \in PostPaths :
        InputIs([f |-> "executePostsQuery", name |-> n, path |-> p])

DoExecutePostsQuery ==
    /\ arg.f = "executePostsQuery"
    /\ Returns([done |-> TRUE,
                post |-> isPost(PostFile(arg.name), ParseQuery(Tag("posts", arg.path, "")).ast)])

NextPosts == DoExecutePostsQuery

SpecPosts == InitPosts /\ [][NextPosts]_vars

\* C23: a markdown or HTML document is a candidate of a posts query exactly
\* when its base name is neither index.md nor index.html and it passes the
\* path filter of the query
C23_ExactlyIndexExcluded ==
    (ret.done /\ arg.f = "executePostsQuery") =>
        (ret.post <=>
            /\ Base(arg.name) \notin {Index \o MD, Index \o HTML}
            /\ (arg.path # <<>> => matchesPathPattern(arg.name, arg.path)))

(***************************************************************************)
(* SpecAccess: access control of a query in a nested document.  The server *)
(* is started on a content directory whose b/s/r.md holds a posts query    *)
(* over the documents of b; b/index.md, b/p.md and b/s/r.md are private or *)
(* not.                                                                    *)
(***************************************************************************)
\* IsPrivate (privatecheck.go): the document is private itself or the index.md
\* of the directory of its slug is
IsPrivate(S, fd) ==
    \/ PageIsPrivate(fd)
    \/ /\ Contains(PageSlug(fd), Slash)
       /\ LET parentIdxFile == DoPath(S, Dir(PageSlug(fd)) \o <<Slash>> \o IndexMd)
          IN parentIdxFile.present /\ PageIsPrivate(parentIdxFile)

AccessQueries == {QAll, QAllPrivate, QRecent2}

InitAccess ==
    /\ \E body \in IndexBodies, idxPrivate \in BOOLEAN, pPrivate \in BOOLEAN,
          rPrivate \in BOOLEAN, q \in AccessQueries :
           LET d == [InitialDisk(body, idxPrivate, pPrivate, TRUE) EXCEPT
                        ![PR] = FileOnDisk(<<FmLine(rPrivate, 6), StartLine(q), EndLine>>, 1)]
           IN \E o \in {x \in ScanForQueries(LoadContent(Constructed(d)).s) : x.res = "ok"} :
                  Starts(o.s)
    /\ reqs = <<>>

NextAccess == DoNotifyFileChanged \/ DoRefreshContent \/ DoScanContentFileForQueries

SpecAccess == InitAccess /\ [][NextAccess]_vars

\* the documents of the index that a result line of the file names
NamedIn(S, p) ==
    {f \in AllFiles(S) :
        \E i \in 1..Len(S.disk[p].lines) :
            /\ S.disk[p].lines[i].k \in {"item", "item-date"}
            /\ S.disk[p].lines[i].slug = <<Slash>> \o PageSlug(f)}

\* C24: access control cascades: after NotifyFileChanged on a public document
\* whose queries do not set include-private, no result line names a document
\* that is private itself or by the index.md of its directory
C24_InheritedPrivateExcluded ==
    (/\ last.op = "NotifyFileChanged"
     /\ last.res = "ok"
     /\ last.path = PR
     /\ DoPath(St, PR).present
     /\ ~IsPrivate(St, DoPath(St, PR))
     /\ \A i \in 1..Len(queries[PR]) : ~queries[PR][i].Query.IncludePrivate) =>
        \A f \in NamedIn(St, PR) : ~IsPrivate(St, f)

(***************************************************************************)
(* Query types                                                             *)
(***************************************************************************)
\* C25: every query type that ParseQuery accepts can be executed:
\* NotifyFileChanged on an indexed document that is on disk and holds a
\* recorded pages or backlinks block returns no error
C25_AcceptedTypesExecute ==
    (/\ last.op = "NotifyFileChanged"
     /\ DoPath(St, last.path).present
     /\ disk[last.path].exists
     /\ \E i \in 1..Len(queries[last.path]) :
            queries[last.path][i].Query.Type \in {QueryPages, QueryBacklinks}) =>
        last.res = "ok"

(***************************************************************************)
(* Ties in the sort                                                        *)
(***************************************************************************)
\* C26: sorting is stable with respect to ties and repeatable: the same query
\* over the same documents always gives the same sequence, so the ordering
\* applySortToFiles returned is the only one it can return
C26_SortRepeatable ==
    (ret.done /\ arg.f = "applySortToFiles") =>
        applySortToFiles(arg.files, arg.query) = {ret.out}

(***************************************************************************)
(* SpecStyle: the delimiter style of a frontmatter block.  A document that *)
(* begins with a --- or +++ block of up to two keys is given to            *)
(* ExtractFrontmatter, the object it returns to Marshal, and the text of   *)
(* Marshal, with a body after it, to ExtractFrontmatter again.             *)
(***************************************************************************)
FrontmatterYAML == "yaml"
FrontmatterTOML == "toml"

StyledBlock(style, items) == [k |-> "fmblock", style |-> style, items |-> items]

\* ExtractFrontmatter of the frontmatter codec: the set of its outcomes.  The
\* block must be followed by a newline; SetRaw decodes it into Data and
\* leaves DataKV empty.  Whether toml.Unmarshal accepts the ordered list as
\* its target is decided by the library, so both results are kept.
ExtractFrontmatterKV(content) ==
    IF Len(content) > 1 /\ content[1].k = "fmblock"
    THEN LET fm == [Type |-> content[1].style, Data |-> content[1].items, DataKV |-> <<>>]
         IN  {[err |-> FALSE, nil |-> FALSE, fm |-> fm]}
             \cup (IF content[1].style = FrontmatterTOML
                   THEN {[err |-> TRUE, nil |-> TRUE, fm |-> fm]} ELSE {})
    ELSE {[err |-> FALSE, nil |-> TRUE,
           fm |-> [Type |-> "", Data |-> <<>>, DataKV |-> <<>>]]}

\* the texts Marshal can return: the items between two `---` lines
MarshalText(fm) ==
    {StyledBlock(FrontmatterYAML, o.out) : o \in {x \in Marshal(fm) : ~x.panic}}

StyleItems ==
    {<<>>}
    \cup {<<MapItem(k, 1)>> : k \in FmKeys}
    \cup {<<MapItem(ks[1], 1), MapItem(ks[2], 2)>> :
            ks \in {x \in FmKeys \X FmKeys : x[1] # x[2]}}

InitStyle ==
    \E style \in {FrontmatterYAML, FrontmatterTOML}, items \in StyleItems,
       body \in {<<>>, <<TextLine(1)>>} :
        InputIs([f |-> "Marshal", content |-> <<StyledBlock(style, items)>> \o body])

DoMarshalExtracted ==
    /\ arg.f = "Marshal"
    /\ \E e \in ExtractFrontmatterKV(arg.content) :
           IF e.err \/ e.nil \/ MarshalText(e.fm) = {}
           THEN Returns([done |-> TRUE, marshaled |-> FALSE, Type |-> e.fm.Type,
                         text |-> <<>>, again |-> {}])
           ELSE \E text \in MarshalText(e.fm) :
                    Returns([done |-> TRUE, marshaled |-> TRUE, Type |-> e.fm.Type,
                             text |-> text,
                             again |-> {x.fm.Type :
                                           x \in {y \in ExtractFrontmatterKV(<<text, TextLine(1)>>) :
                                                     ~y.err /\ ~y.nil}}])

NextStyle == DoMarshalExtracted

SpecStyle == InitStyle /\ [][NextStyle]_vars

SlugDocs ==
    {[Doc(p, FALSE, 2, <<TextLine(1)>>) EXCEPT !.ParsedContent.Frontmatter.slug = s]
        : p \in {PP, PQ}, s \in {<<>>, <<"p">>, <<"q">>}}

\* the edit endpoint saves a document, a tick of the clock after the last write
DoSaveSlug ==
    /\ Step
    /\ \E fd \in SlugDocs : \E o \in SaveFileDetail(Later(St, 1), fd, "", 0) :
           Apply(o) /\ Record("SaveFileDetail", fd.FileName, o.res, o.trace, "", fd)

NextSlug == DoLoadContent \/ DoRefreshContent \/ DoSaveSlug

SpecSlug == Init /\ [][NextSlug]_vars

\* C28: every entry of the slug index refers to a document that the path
\* index holds under its file name with the same parsed content and whose
\* computed slug is the key of the entry
C28_SlugIndexConsistent ==
    \A k \in Slugs :
        SlugFileMap[k].present =>
            /\ FileName[SlugFileMap[k].FileName].present
            /\ FileName[SlugFileMap[k].FileName].ParsedContent = SlugFileMap[k].ParsedContent
            /\ PageSlug(FileName[SlugFileMap[k].FileName]) = k

(***************************************************************************)
(* SpecEdit: the edit endpoint on an existing document.  DoPath hands the  *)
(* handler a copy of the indexed FileDetail whose ParsedContent and        *)
(* Frontmatter are pointers, so the frontmatter object of the request is   *)
(* the one the store holds.  doc is the indexed document (the object its   *)
(* Frontmatter points to, and its body), req the request: whether its      *)
(* content parses, its frontmatter text (the items it decodes to, and      *)
(* whether it decodes) and its body.  fault names the failing I/O.         *)
(***************************************************************************)
NilFm == [nil |-> TRUE]

FmText(ok, items) == [ok |-> ok, items |-> items]

FmObject(text) == [nil |-> FALSE, Raw |-> text, Data |-> text.items, DataKV |-> <<>>]

\* FrontmatterData.SetRaw: Raw is assigned before the text is decoded
SetRaw(fm, data) ==
    IF data.ok THEN [err |-> FALSE, fm |-> [fm EXCEPT !.Raw = data, !.Data = data.items]]
    ELSE [err |-> TRUE, fm |-> [fm EXCEPT !.Raw = data]]

\* the times the handler sets on the frontmatter of an existing page
SetTimes(fm) ==
    LET created == IF "created" \in DOMAIN fm.DataKV THEN fm
                   ELSE SetValue(SetValue(fm, "created", 1), "created_time", 1)
    IN  SetValue(SetValue(created, "updated", 1), "updated_time", 1)

\* HandleEditPageData from DoPath to the response: the set of its outcomes,
\* each with the document the store holds afterwards
HandleEditPageData(doc, req, fault) ==
    IF ~req.contentOk THEN {[status |-> "content", doc |-> doc]}
    ELSE LET fresh == doc.Frontmatter.nil
             set == IF fresh THEN [err |-> ~req.fm.ok, fm |-> FmObject(req.fm)]
                    ELSE SetRaw(doc.Frontmatter, req.fm)
             held(fm) == IF fresh THEN doc ELSE [doc EXCEPT !.Frontmatter = fm]
         IN  IF set.err THEN {[status |-> "frontmatter", doc |-> held(set.fm)]}
             ELSE {IF o.panic THEN [status |-> "panic", doc |-> held(o.fm)]
                   ELSE IF fault = "WriteContentFile"
                   THEN [status |-> "save", doc |-> held(o.fm)]
                   ELSE [status |-> "ok",
                         doc |-> [Frontmatter |-> FmObject(FmText(TRUE, o.out)),
                                  Body |-> req.Body]]
                   : o \in Marshal(SetTimes(set.fm))}

EditItems == {<<>>, <<MapItem("a", 1)>>, <<MapItem("a", 2), MapItem("b", 1)>>}

InitEdit ==
    \E fm \in {NilFm} \cup {FmObject(FmText(TRUE, items)) : items \in EditItems},
       contentOk \in BOOLEAN, ok \in BOOLEAN, items \in EditItems,
       fault \in {"", "WriteContentFile"} :
        InputIs([f |-> "HandleEditPageData",
                 doc |-> [Frontmatter |-> fm, Body |-> <<TextLine(1)>>],
                 req |-> [contentOk |-> contentOk, fm |-> FmText(ok, items),
                          Body |-> <<TextLine(2)>>],
                 fault |-> fault])

DoHandleEditPageData ==
    /\ arg.f = "HandleEditPageData"
    /\ \E o \in HandleEditPageData(arg.doc, arg.req, arg.fault) :
           Returns([done |-> TRUE, status |-> o.status, doc |-> o.doc])

NextEdit == DoHandleEditPageData

SpecEdit == InitEdit /\ [][NextEdit]_vars

\* C29: an edit request that is rejected because its content or frontmatter
\* does not parse, or because the save fails at the write, leaves the
\* indexed document (frontmatter raw text, keys and values, body) as it was
C29_RejectedEditLeavesStore ==
    (/\ ret.done
     /\ arg.f = "HandleEditPageData"
     /\ ret.status \in {"content", "frontmatter", "save"}) =>
        ret.doc = arg.doc

(***************************************************************************)
(* SpecHashtags: one MarkdownParser used for several Parse calls.  The     *)
(* inline parser appends every hashtag to a slice that the parser keeps;   *)
(* Parse hands the slice to its result and cuts the parser's slice to      *)
(* length 0, which keeps the array.  heap is the sequence of the arrays    *)
(* allocated so far (an array is as long as its capacity), a slice is an   *)
(* array a (0: none) and a length.  The texts have up to MaxTags hashtags. *)
(***************************************************************************)
MaxParses == 3
MaxTags == 2

TagNames == {"x", "y"}

RECURSIVE TagLists(_)
TagLists(n) ==
    IF n = 0 THEN {<<>>}
    ELSE TagLists(n - 1)
         \cup {Append(l, t) : l \in {x \in TagLists(n - 1) : Len(x) = n - 1}, t \in TagNames}

\* hashtags = append(hashtags, hashtagText): in place while the array has
\* room, else into a new array of twice the size
appendHashtag(h, tag) ==
    IF h.a # 0 /\ h.len < Len(h.heap[h.a])
    THEN [h EXCEPT !.heap[h.a][h.len + 1] = tag, !.len = @ + 1]
    ELSE LET newcap == IF h.len = 0 THEN 1 ELSE 2 * h.len
             array == [i \in 1..newcap |->
                          IF i <= h.len THEN h.heap[h.a][i]
                          ELSE IF i = h.len + 1 THEN tag ELSE ""]
         IN  [heap |-> Append(h.heap, array), a |-> Len(h.heap) + 1, len |-> h.len + 1]

\* markdown.ToHTML: the inline parser runs on every hashtag of the text
RECURSIVE ToHTML(_, _)
ToHTML(h, tags) ==
    IF tags = <<>> THEN h ELSE ToHTML(appendHashtag(h, Head(tags)), Tail(tags))

\* the hashtags of a result as a reader of result.Hashtags sees them
HashtagsOf(heap, r) == IF r.a = 0 THEN <<>> ELSE SubSeq(heap[r.a], 1, r.len)

InitHashtags ==
    /\ StoreIs(Unused)
    /\ reqs = <<>>
    /\ arg = [f |-> "Parse", heap |-> <<>>, a |-> 0, results |-> <<>>]
    /\ ret = NoRet

\* MarkdownParser.Parse: result.Hashtags = *mp.hashtags, then
\* *mp.hashtags = (*mp.hashtags)[:0]
DoParse ==
    /\ arg.f = "Parse"
    /\ Len(arg.results) < MaxParses
    /\ \E tags \in TagLists(MaxTags) :
           LET h == ToHTML([heap |-> arg.heap, a |-> arg.a, len |-> 0], tags)
           IN  /\ arg' = [arg EXCEPT !.heap = h.heap, !.a = h.a,
                                     !.results = Append(@, [a |-> h.a, len |-> h.len,
                                                            input |-> tags])]
               /\ ret' = [done |-> TRUE]
    /\ UNCHANGED <<disk, FileName, SlugFileMap, queries, last, reqs, now, steps>>

NextHashtags == DoParse

SpecHashtags == InitHashtags /\ [][NextHashtags]_vars

\* C30: every ParsedContent that the parser has returned holds exactly the
\* hashtags of its own input, also after later Parse calls on the parser
C30_ResultsKeepOwnHashtags ==
    arg.f = "Parse" =>
        \A i \in 1..Len(arg.results) :
            HashtagsOf(arg.heap, arg.results[i]) = arg.results[i].input

====
